---- MODULE Spec2Model ----
(***************************************************************************)
(* Model of tools/run_fetch.py of osobny-spravodaj: the runtime fetch      *)
(* engine (source selection, the two extraction strategies, scoring,       *)
(* cross-source dedupe and ordering, the digest, the whole of main), and   *)
(* of tools/osobny_spravodaj_build_config.py: the registry build tool      *)
(* (validation of the workbook, the reports, the export).                  *)
(*                                                                         *)
(* Text is modelled as a sequence of tokens.  A token is one character,    *)
(* or, for URL text, one of the literal words the tracking-parameter       *)
(* pattern of strip_utm names ("utm_", "gclid", ...), which no other       *)
(* token of the alphabet can spell.  The regular expressions of the code   *)
(* are evaluated over these sequences the way Python's re evaluates them   *)
(* over characters: leftmost match, greedy repetition, no overlap.         *)
(***************************************************************************)
EXTENDS Integers, Sequences, FiniteSets, TLC

VARIABLES
    pc,         \* where main stands: "start", "loop", "write", "done", "aborted"
                \* (registry not found), or "crashed" by an exception
    registry_file,  \* what --registry points at: "missing", "invalid" (not JSON), "valid"
    registry,   \* the document load_registry parses from a valid file
    args_sources,   \* --sources, the text given (empty when the option is not given)
    sources,    \* the SourceCfg list pick_sources returned
    limit,      \* --limit
    now,        \* now_local() taken before the loop
    tzlocal,    \* the local time zone of the process, tz.tzlocal()
    idx,        \* position of the for loop over sources (next source to process)
    all_items,  \* main's all_items
    warns,      \* main's warns
    calls,      \* per processed source, in order: the strategy the loop called, what came back
    fetches,    \* the http_get calls made so far: the source and whether the call returned
    files,      \* the output files written: file name |-> content
    stderr,     \* what main printed to standard error
    exit_code,  \* the exit status of the process, -1 while main runs
    canon,      \* strip_utm harness: the URL given, and the results of one and two passes
    scoring,    \* time_score harness: the publish time, the reference time, the result
    agg,        \* aggregator harness: the item list given, and what dedupe and sort_items make of it
    digest,     \* write_daily_brief harness: the item list given, the lines written
    pick,       \* pick_sources harness: the registry and the allow-list given, the result
    guess,      \* guess_date_from_text harness: the context given, the date found
    strat,      \* strategy harness: source, limit and response given, what is returned
    build       \* one run of the registry build tool: its inputs, its position, what it wrote

inputVars == <<registry_file, registry, args_sources, limit, now, tzlocal>>
runVars == <<pc, inputVars, sources, idx, all_items, warns, calls, fetches, files, stderr, exit_code>>
vars == <<runVars, canon, scoring, agg, digest, pick, guess, strat, build>>

\* body(x) for the value x of an expression, which is evaluated once.
With(x, body(_)) == CHOOSE r \in {body(y) : y \in {x}} : TRUE

\* Python's None, where the other values are records (a datetime, a published text).
\* An absent text (a URL the registry does not give) is the empty sequence: the
\* code tests such texts for truth only, and None and "" are both false.
None == [none |-> TRUE]

\* No run of main under way (the harnesses of the pure functions).
RunIdle ==
    /\ pc = "idle" /\ registry_file = "missing" /\ registry = None /\ args_sources = <<>>
    /\ sources = <<>> /\ limit = 0 /\ now = None /\ tzlocal = None /\ idx = 0
    /\ all_items = <<>> /\ warns = <<>> /\ calls = <<>> /\ fetches = <<>> /\ files = <<>>
    /\ stderr = <<>> /\ exit_code = -1

\* No run of the registry build tool under way.
BuildIdle == build = [step |-> "idle"]

\* ------------------------------------------------------------------ bounds
MaxUrlLen == 5
DaySpan == 9        \* publish dates range over today - DaySpan .. today + DaySpan
MaxItems == 3       \* longest item list given to the aggregator harness
MaxSources == 3     \* most sources selected for one run
MaxLimit == 2       \* largest --limit

\* ------------------------------------------------------------ text basics

\* All sequences over S of length 0..n.
SeqsUpTo(S, n) == UNION {[1..k -> S] : k \in 0..n}

\* str.lower() on one token (the tokens of the alphabets used here).
\* "E_ACUTE" and "e_acute" stand for the characters U+00C9 and U+00E9.
LowerTok(c) ==
    CASE c = "A" -> "a"
      [] c = "B" -> "b"
      [] c = "E_ACUTE" -> "e_acute"
      [] c = "GCLID" -> "gclid"
      [] c = "http://H2" -> "http://h2"
      [] OTHER -> c

Lower(s) == [i \in 1..Len(s) |-> LowerTok(s[i])]

\* The code point of a character (those of the title alphabet).
Ord(c) ==
    CASE c = "\t" -> 9
      [] c = "\n" -> 10
      [] c = "\r" -> 13
      [] c = " " -> 32
      [] c = "!" -> 33
      [] c = "1" -> 49
      [] c = "A" -> 65
      [] c = "B" -> 66
      [] c = "a" -> 97
      [] c = "b" -> 98
      [] c = "E_ACUTE" -> 201
      [] c = "e_acute" -> 233

\* \s of the regular expressions.
IsSpace(c) == c \in {" ", "\t", "\n", "\r"}

\* [a-z0-9] of norm_key.
IsLowerAlnum(c) == c \in {"a", "b", "1"}

\* str.strip(): leading and trailing whitespace removed.
RECURSIVE StripLeft(_)
StripLeft(s) ==
    IF s # <<>> /\ IsSpace(s[1]) THEN StripLeft(Tail(s)) ELSE s

RECURSIVE StripRight(_)
StripRight(s) ==
    IF s # <<>> /\ IsSpace(s[Len(s)]) THEN StripRight(SubSeq(s, 1, Len(s) - 1)) ELSE s

Strip(s) == StripRight(StripLeft(s))

\* re.sub(r"\s+", " ", s): every maximal run of whitespace becomes one blank.
RECURSIVE CollapseSpaces(_)
CollapseSpaces(s) ==
    IF s = <<>> THEN <<>>
    ELSE IF IsSpace(s[1])
         THEN <<" ">> \o CollapseSpaces(StripLeft(s))
         ELSE <<s[1]>> \o CollapseSpaces(Tail(s))

\* The rest of s after its leading run of characters outside [a-z0-9].
RECURSIVE SkipNonAlnum(_)
SkipNonAlnum(s) ==
    IF s # <<>> /\ ~IsLowerAlnum(s[1]) THEN SkipNonAlnum(Tail(s)) ELSE s

\* re.sub(r"[^a-z0-9]+", " ", s): every maximal run outside [a-z0-9] becomes one blank.
RECURSIVE CollapseNonAlnum(_)
CollapseNonAlnum(s) ==
    IF s = <<>> THEN <<>>
    ELSE IF ~IsLowerAlnum(s[1])
         THEN <<" ">> \o CollapseNonAlnum(SkipNonAlnum(s))
         ELSE <<s[1]>> \o CollapseNonAlnum(Tail(s))

safe_text(x) == Strip(x)

norm_space(s) == Strip(CollapseSpaces(s))

\* Plausible slip: the key stops after whitespace normalization and lowercasing.
norm_key_lower_only(s) == Lower(norm_space(s))

norm_key(s) == Strip(CollapseNonAlnum(Lower(norm_space(s))))

\* The code points of a text.
Codes(s) == [i \in 1..Len(s) |-> Ord(s[i])]

\* Python's ordering of two sequences of integers: a < b.
RECURSIVE LexLess(_, _)
LexLess(a, b) ==
    IF b = <<>> THEN FALSE
    ELSE IF a = <<>> THEN TRUE
    ELSE IF a[1] # b[1] THEN a[1] < b[1]
    ELSE LexLess(Tail(a), Tail(b))

\* ------------------------------------------------------------- strip_utm

\* The literal alternatives of the tracking pattern (matched with re.IGNORECASE).
TrackingLiterals == {"fbclid", "gclid", "mc_cid", "mc_eid"}

\* Index of the first "=" at or after position i, or Len(s) + 1 when there is none.
RECURSIVE FirstEq(_, _)
FirstEq(s, i) ==
    IF i > Len(s) THEN Len(s) + 1
    ELSE IF s[i] = "=" THEN i
    ELSE FirstEq(s, i + 1)

\* Index just past the longest run of tokens other than "&" and "#" starting at i
\* (the greedy [^&#]+ of the pattern).
RECURSIVE ValueEnd(_, _)
ValueEnd(s, i) ==
    IF i > Len(s) THEN i
    ELSE IF s[i] \in {"&", "#"} THEN i
    ELSE ValueEnd(s, i + 1)

\* Where a match of (\?|&)(utm_[^=]+|fbclid|gclid|mc_cid|mc_eid)=[^&#]+ that
\* starts at position i ends (index just past it), or 0 when none starts there.
TrackingMatchEnd(s, i) ==
    IF i + 1 > Len(s) \/ s[i] \notin {"?", "&"} THEN 0
    ELSE LET name == LowerTok(s[i + 1])
             \* utm_[^=]+ : the name runs to the first "=", and holds at least
             \* one token after "utm_" (which may be "&", "#" or "?")
             eq   == FirstEq(s, i + 2)
             viaUtm == IF name = "utm_" /\ eq > i + 2 /\ eq <= Len(s)
                          /\ ValueEnd(s, eq + 1) > eq + 1
                       THEN ValueEnd(s, eq + 1) ELSE 0
             viaLit == IF name \in TrackingLiterals /\ i + 2 <= Len(s)
                          /\ s[i + 2] = "=" /\ ValueEnd(s, i + 3) > i + 3
                       THEN ValueEnd(s, i + 3) ELSE 0
         IN  IF viaUtm # 0 THEN viaUtm ELSE viaLit

\* re.sub(pattern, "", url): every non-overlapping match, leftmost first, removed.
RECURSIVE RemoveTracking(_, _)
RemoveTracking(s, i) ==
    IF i > Len(s) THEN <<>>
    ELSE LET e == TrackingMatchEnd(s, i)
         IN  IF e # 0 THEN RemoveTracking(s, e)
             ELSE <<s[i]>> \o RemoveTracking(s, i + 1)

\* The text without its trailing run of "?" and "&".
RECURSIVE DropSeparatorRun(_)
DropSeparatorRun(s) ==
    IF s # <<>> /\ s[Len(s)] \in {"?", "&"}
    THEN DropSeparatorRun(SubSeq(s, 1, Len(s) - 1))
    ELSE s

\* re.sub(r"[?&]+$", "", url): the run of "?" and "&" that ends where $ matches
\* is removed. Without re.MULTILINE, $ matches at the very end of the text and
\* also just before a line feed that is the last character; a text that ends
\* in a line feed has its one match, if any, in front of that line feed.
StripTrailingSeparators(s) ==
    IF s # <<>> /\ s[Len(s)] = "\n"
    THEN DropSeparatorRun(SubSeq(s, 1, Len(s) - 1)) \o <<"\n">>
    ELSE DropSeparatorRun(s)

strip_utm(url) ==
    IF url = <<>> THEN url
    ELSE StripTrailingSeparators(RemoveTracking(url, 1))

\* ---------------------------------------------------------------- scoring

\* A timezone-aware datetime, as its local wall clock: the day (an ordinal, as
\* date.toordinal counts) and the hour.  Dates compare and shift as their ordinals.
DateTime(day, hour) == [day |-> day, hour |-> hour]

to_date(d) == d.day

GEO_WEIGHT == [g \in {"BA", "BSK", "SR", "SUSEDIA", "EU_GLOBAL"} |->
                 CASE g = "BA" -> 3 [] g = "BSK" -> 2 [] OTHER -> 1]

\* GEO_WEIGHT.get(geo, 1)
GeoWeight(geo) == IF geo \in DOMAIN GEO_WEIGHT THEN GEO_WEIGHT[geo] ELSE 1

\* Plausible slip: the window bound written strictly, today - 7 < d.
time_score_strict_window(pub_dt, now0) ==
    IF pub_dt = None THEN 0
    ELSE LET d == to_date(pub_dt)
             today == to_date(now0)
         IN  IF d = today \/ d = today + 1 THEN 2
             ELSE IF d = today - 1 THEN 2
             ELSE IF today - 7 < d /\ d <= today THEN 1
             ELSE 0

time_score(pub_dt, now0) ==
    IF pub_dt = None THEN 0
    ELSE LET d == to_date(pub_dt)
             today == to_date(now0)
         IN  IF d = today \/ d = today + 1 THEN 2
             ELSE IF d = today - 1 THEN 2
             ELSE IF today - 7 <= d /\ d <= today THEN 1
             ELSE 0

impact_bias_bonus(impact_bias) ==
    IF impact_bias \in {"urgent_boost", "practical_boost"} THEN 1
    ELSE IF impact_bias = "low_impact" THEN -1
    ELSE 0

Hours == {0, 23}
PubTimes == {None} \cup {DateTime(d, h) : d \in (0 - DaySpan)..DaySpan, h \in Hours}
NowTimes == {DateTime(0, h) : h \in Hours}

\* ------------------------------------------------------------------ model

\* dataclass SourceCfg
SourceCfg(sid, name, feed, home, method, geo, brief, boost, impact, tags) ==
    [source_id |-> sid, name |-> name, urls_feed |-> feed, urls_home |-> home,
     fetch_method |-> method, geo_default |-> geo, brief_level |-> brief,
     boost |-> boost, impact_bias |-> impact, tags_default |-> tags]

\* datetime.isoformat(): the text of a local time.  Its fields have fixed width,
\* most significant first, so two such texts compare as the sequences of their
\* fields do; the date fields are kept as the ordinal of the day.
IsoFormat(d) == [iso |-> <<d.day, d.hour>>]

\* Plausible slip: the source boost left out of the sum.
ItemScoreNoBoost(src, pub_dt, now0) ==
    time_score(pub_dt, now0) + GeoWeight(src.geo_default) + impact_bias_bonus(src.impact_bias)

\* The score of an item of source src published at pub_dt (fetch_rss and
\* fetch_html_list compute the same sum).
ItemScore(src, pub_dt, now0) ==
    time_score(pub_dt, now0)
    + GeoWeight(src.geo_default)
    + src.boost
    + impact_bias_bonus(src.impact_bias)

\* The Item both strategies build from a source, a title, a URL and a publish time.
MakeItem(src, title, url, pub_dt, summary, now0) ==
    [source_id |-> src.source_id,
     source_name |-> src.name,
     title |-> title,
     url |-> url,
     published |-> IF pub_dt = None THEN None ELSE IsoFormat(pub_dt),
     summary |-> summary,
     geo |-> src.geo_default,
     brief_level |-> src.brief_level,
     tags |-> src.tags_default,
     score |-> ItemScore(src, pub_dt, now0)]

\* --------------------------------------------------------------- registry

\* A value of the parsed registry document (json.loads): None for null, Missing
\* where a dict has no such key, otherwise a tagged value.  An entry of
\* reg["sources"] is a record of such values; the nested keys urls.feed,
\* urls.home, fetch.method, geo.default, brief.level, scoring.boost and
\* scoring.impact_bias are its fields feed, home, method, geo, brief, boost and
\* impact_bias (an absent or null inner dict reads as Missing for its keys).
Missing == [missing |-> TRUE]
JBool(b) == [bool |-> b]
JInt(n) == [int |-> n]
JStr(text) == [str |-> text]
JList(l) == [list |-> l]

IsJBool(v) == DOMAIN v = {"bool"}
IsJInt(v) == DOMAIN v = {"int"}
IsJStr(v) == DOMAIN v = {"str"}

\* dict.get(key): None for an absent key.
Get(v) == IF v = Missing THEN None ELSE v

\* The truth value Python gives a value.
Truthy(v) ==
    IF v = None THEN FALSE
    ELSE IF IsJBool(v) THEN v.bool
    ELSE IF IsJInt(v) THEN v.int # 0
    ELSE IF IsJStr(v) THEN v.str # <<>>
    ELSE v.list # <<>>

\* safe_text on a value of the registry: "" for None, else str(x).strip()
\* (the text fields of a registry hold strings or null).
safe_text_of(v) == IF v = None THEN <<>> ELSE safe_text(v.str)

\* The string the tokens spell after the string str.
RECURSIVE ConcatToks(_, _)
ConcatToks(str, toks) ==
    IF toks = <<>> THEN str ELSE ConcatToks(str \o toks[1], Tail(toks))

\* A text as the one string a SourceCfg field holds (ids, method and geo
\* codes): the string its tokens spell.
WordOf(text) == ConcatToks("", text)

\* A URL field: kept as it is; None and "" are both false for the strategies.
UrlOf(v) == IF v = None THEN <<>> ELSE v.str

IsDigit(c) == c \in {"0", "1", "2", "3", "4", "5", "6", "7", "8", "9"}

DigitValue(c) ==
    CASE c = "0" -> 0 [] c = "1" -> 1 [] c = "2" -> 2 [] c = "3" -> 3 [] c = "4" -> 4
      [] c = "5" -> 5 [] c = "6" -> 6 [] c = "7" -> 7 [] c = "8" -> 8 [] c = "9" -> 9

\* The number a run of decimal digits spells.
RECURSIVE DigitsValue(_, _)
DigitsValue(digits, acc) ==
    IF digits = <<>> THEN acc
    ELSE DigitsValue(Tail(digits), 10 * acc + DigitValue(digits[1]))

\* int(x): the integer, or the exception (ValueError, TypeError) it raises.
\* A string is stripped and read as an optional sign and decimal digits, with
\* single underscores allowed between two digits.
PyInt(v) ==
    IF IsJInt(v) THEN [ok |-> TRUE, value |-> v.int]
    ELSE IF IsJBool(v) THEN [ok |-> TRUE, value |-> IF v.bool THEN 1 ELSE 0]
    ELSE IF IsJStr(v)
    THEN LET t == Strip(v.str)
             signed == t # <<>> /\ t[1] \in {"-", "+"}
             digits == IF signed THEN Tail(t) ELSE t
             n == DigitsValue(SelectSeq(digits, IsDigit), 0)
         IN  IF /\ digits # <<>>
                /\ IsDigit(digits[1]) /\ IsDigit(digits[Len(digits)])
                /\ \A i \in 1..Len(digits) :
                      \/ IsDigit(digits[i])
                      \/ digits[i] = "_" /\ IsDigit(digits[i - 1]) /\ IsDigit(digits[i + 1])
             THEN [ok |-> TRUE, value |-> IF t[1] = "-" THEN 0 - n ELSE n]
             ELSE [ok |-> FALSE]
    ELSE [ok |-> FALSE]

BoostOf(v) ==
    IF v = None THEN 0
    ELSE IF PyInt(v).ok THEN PyInt(v).value ELSE 0

\* [safe_text(t) for t in tags if safe_text(t)]
RECURSIVE TagsOf(_)
TagsOf(tags) ==
    IF tags = <<>> THEN <<>>
    ELSE IF safe_text_of(tags[1]) = <<>> THEN TagsOf(Tail(tags))
    ELSE <<WordOf(safe_text_of(tags[1]))>> \o TagsOf(Tail(tags))

\* The SourceCfg pick_sources builds from one entry of the registry.
CfgOf(e) ==
    SourceCfg(WordOf(safe_text_of(Get(e.source_id))),
              WordOf(safe_text_of(Get(e.name))),
              UrlOf(Get(e.feed)),
              UrlOf(Get(e.home)),
              WordOf(safe_text_of(Get(e.method))),
              WordOf(safe_text_of(Get(e.geo))),
              WordOf(safe_text_of(Get(e.brief))),
              BoostOf(Get(e.boost)),
              WordOf(safe_text_of(Get(e.impact_bias))),
              IF Truthy(Get(e.tags_default)) THEN TagsOf(e.tags_default.list) ELSE <<>>)

\* s.get("enabled", True), taken for its truth value.
EntryEnabled(e) == IF e.enabled = Missing THEN TRUE ELSE Truthy(e.enabled)

\* Plausible slip: s.get("enabled") without the default, so that an entry
\* without the flag is skipped.
RECURSIVE PickLoopFlagRequired(_, _, _, _)
PickLoopFlagRequired(entries, i, wanted, out) ==
    IF i > Len(entries) THEN out
    ELSE LET e == entries[i]
             sid == safe_text_of(Get(e.source_id))
         IN  IF wanted # None /\ WordOf(sid) \notin wanted.ids
             THEN PickLoopFlagRequired(entries, i + 1, wanted, out)
             ELSE IF ~Truthy(Get(e.enabled))
             THEN PickLoopFlagRequired(entries, i + 1, wanted, out)
             ELSE PickLoopFlagRequired(entries, i + 1, wanted, Append(out, CfgOf(e)))

\* The loop of pick_sources from entry i on.
RECURSIVE PickLoop(_, _, _, _)
PickLoop(entries, i, wanted, out) ==
    IF i > Len(entries) THEN out
    ELSE LET e == entries[i]
             sid == safe_text_of(Get(e.source_id))
         IN  IF wanted # None /\ WordOf(sid) \notin wanted.ids
             THEN PickLoop(entries, i + 1, wanted, out)
             ELSE IF ~EntryEnabled(e)
             THEN PickLoop(entries, i + 1, wanted, out)
             ELSE PickLoop(entries, i + 1, wanted, Append(out, CfgOf(e)))

\* pick_sources(reg, source_ids): source_ids is None or [list |-> the ids];
\* wanted is the set of the stripped ids when the list is given and not empty.
pick_sources(reg, source_ids) ==
    LET wanted == IF source_ids # None /\ source_ids.list # <<>>
                  THEN [ids |-> {WordOf(Strip(source_ids.list[i])) : i \in 1..Len(source_ids.list)}]
                  ELSE None
    IN  PickLoop(reg.sources, 1, wanted, <<>>)

\* A warning line "[WARN] <source_id>: <text>".
Warn(src, text) == [source_id |-> src.source_id, text |-> text]

\* What a strategy hands back: (items, warns), or an exception that leaves it;
\* fetches counts its calls of http_get.
Returned(items, ws, n) ==
    [raised |-> FALSE, items |-> items, warns |-> ws, fetches |-> n]
Raised(n) ==
    [raised |-> TRUE, items |-> <<>>, warns |-> <<>>, fetches |-> n]

\* Plausible slip: seq[:limit + 1], one element too many.
SliceOneMore(seq, lim) ==
    IF lim + 1 >= 0
    THEN SubSeq(seq, 1, IF lim + 1 < Len(seq) THEN lim + 1 ELSE Len(seq))
    ELSE SubSeq(seq, 1, Len(seq) + lim + 1)

\* seq[:limit]
Slice(seq, lim) ==
    IF lim >= 0
    THEN SubSeq(seq, 1, IF lim < Len(seq) THEN lim ELSE Len(seq))
    ELSE SubSeq(seq, 1, Len(seq) + lim)

\* -------------------------------------------------------------- RSS fetch

\* Plausible slip: "if not title and not link", so that an entry is skipped
\* only when both are empty.
RECURSIVE RssItemsLoopSkipBothEmpty(_, _, _, _, _)
RssItemsLoopSkipBothEmpty(src, entries, i, items, now0) ==
    IF i > Len(entries) THEN items
    ELSE LET entry == entries[i]
             title == norm_space(safe_text(entry.title))
             link == strip_utm(safe_text(entry.link))
         IN  IF title = <<>> /\ link = <<>>
             THEN RssItemsLoopSkipBothEmpty(src, entries, i + 1, items, now0)
             ELSE RssItemsLoopSkipBothEmpty(src, entries, i + 1,
                      Append(items, MakeItem(src, title, link, entry.pub_dt,
                                             norm_space(safe_text(entry.summary)), now0)),
                      now0)

\* The loop of fetch_rss over the entries kept by the limit.  An entry carries
\* its raw title, link and summary and the time parse_entry_datetime finds (or None).
RECURSIVE RssItemsLoop(_, _, _, _, _)
RssItemsLoop(src, entries, i, items, now0) ==
    IF i > Len(entries) THEN items
    ELSE LET entry == entries[i]
             title == norm_space(safe_text(entry.title))
             link == strip_utm(safe_text(entry.link))
         IN  IF title = <<>> \/ link = <<>>
             THEN RssItemsLoop(src, entries, i + 1, items, now0)
             ELSE RssItemsLoop(src, entries, i + 1,
                      Append(items, MakeItem(src, title, link, entry.pub_dt,
                                             norm_space(safe_text(entry.summary)), now0)),
                      now0)

\* Plausible slip: http_get called outside the try block, so that its exception
\* leaves fetch_rss.
fetch_rss_unguarded(src, lim, now0, resp) ==
    IF src.urls_feed = <<>>
    THEN Returned(<<>>, <<Warn(src, "missing urls.feed")>>, 0)
    ELSE IF ~resp.ok
    THEN Raised(1)
    ELSE Returned(RssItemsLoop(src, Slice(resp.body.entries, lim), 1, <<>>, now0),
                  IF resp.body.bozo THEN <<Warn(src, "RSS parse bozo")>> ELSE <<>>,
                  1)

\* fetch_rss, given what http_get does when called: resp.ok is FALSE when it
\* raises, otherwise resp.body is the feed feedparser makes of the text.
fetch_rss(src, lim, now0, resp) ==
    IF src.urls_feed = <<>>
    THEN Returned(<<>>, <<Warn(src, "missing urls.feed")>>, 0)
    ELSE IF ~resp.ok
    THEN Returned(<<>>, <<Warn(src, "fetch failed")>>, 1)
    ELSE Returned(RssItemsLoop(src, Slice(resp.body.entries, lim), 1, <<>>, now0),
                  IF resp.body.bozo THEN <<Warn(src, "RSS parse bozo")>> ELSE <<>>,
                  1)

\* ------------------------------------------------- HTML list fetch (heuristic)

\* A URL is a sequence of tokens that spell it when written one after the
\* other.  "/", "?", "#", ";" and the blank characters are tokens of their
\* own, "." and ".." are, a token that starts with "http://" (the scheme and
\* the start of the host) stands first only, and no other token holds one of
\* these characters, or a ":" outside an authority.

\* str.lower() on a string (ASCII letters).
LowerOfUpper ==
    [A |-> "a", B |-> "b", C |-> "c", D |-> "d", E |-> "e", F |-> "f", G |-> "g",
     H |-> "h", I |-> "i", J |-> "j", K |-> "k", L |-> "l", M |-> "m", N |-> "n",
     O |-> "o", P |-> "p", Q |-> "q", R |-> "r", S |-> "s", T |-> "t", U |-> "u",
     V |-> "v", W |-> "w", X |-> "x", Y |-> "y", Z |-> "z"]

UpperLetters == DOMAIN LowerOfUpper

LowerChar(c) == IF c \in UpperLetters THEN LowerOfUpper[c] ELSE c

RECURSIVE LowerStr(_, _)
LowerStr(str, i) ==
    IF i > Len(str) THEN "" ELSE LowerChar(SubSeq(str, i, i)) \o LowerStr(str, i + 1)

\* The characters of a string, one by one.
Chars(str) == <<>> \o [i \in 1..Len(str) |-> SubSeq(str, i, i)]

\* The string starts with the prefix, letters compared without case.
StartsWithFold(str, prefix) ==
    /\ Len(str) >= Len(prefix)
    /\ LowerChar(SubSeq(str, 1, 1)) = SubSeq(prefix, 1, 1)
    /\ LowerStr(SubSeq(str, 1, Len(prefix)), 1) = prefix

\* sub in str, on strings.
StrContains(str, sub) ==
    \E i \in 1..(Len(str) - Len(sub) + 1) : SubSeq(str, i, i + Len(sub) - 1) = sub

\* The pieces of a text between the tokens sep.
RECURSIVE SplitOn(_, _, _)
SplitOn(text, sep, piece) ==
    IF text = <<>> THEN <<piece>>
    ELSE IF text[1] = sep THEN <<piece>> \o SplitOn(Tail(text), sep, <<>>)
    ELSE SplitOn(Tail(text), sep, Append(piece, text[1]))

\* The position of the first token c of a text, 0 when it has none.
FirstIndex(text, c) ==
    IF \E i \in 1..Len(text) : text[i] = c
    THEN CHOOSE i \in 1..Len(text) : text[i] = c /\ \A j \in 1..(i - 1) : text[j] # c
    ELSE 0

\* _BAD_HREF.match(href), the pattern ^(javascript:|mailto:|tel:|#) with re.I:
\* the target starts with one of the four, in any case.
BadHref(href) ==
    With(WordOf(href), LAMBDA word :
        \E prefix \in {"javascript:", "mailto:", "tel:", "#"} : StartsWithFold(word, prefix))

\* The token starts with "http://" (urlsplit lowers the scheme).
IsHttpToken(tok) == StartsWithFold(tok, "http://")

\* What urlsplit does to a URL before it splits it: the blanks and control
\* characters in front are stripped, and every tab, carriage return and line
\* feed is taken out.
CleanUrl(url) == SelectSeq(StripLeft(url), LAMBDA tok : tok \notin {"\t", "\r", "\n"})

\* The tokens of s in front of its first token of the set delims.
RECURSIVE PrefixBefore(_, _)
PrefixBefore(s, delims) ==
    IF s = <<>> \/ s[1] \in delims THEN <<>>
    ELSE <<s[1]>> \o PrefixBefore(Tail(s), delims)

\* path.split("/"): the segments of a path, each a sequence of tokens.
RECURSIVE SplitSlash(_, _)
SplitSlash(path, seg) ==
    IF path = <<>> THEN <<seg>>
    ELSE IF path[1] = "/" THEN <<seg>> \o SplitSlash(Tail(path), <<>>)
    ELSE SplitSlash(Tail(path), Append(seg, path[1]))

\* "/".join(segments)
RECURSIVE JoinSlash(_)
JoinSlash(segs) ==
    IF segs = <<>> THEN <<>>
    ELSE IF Len(segs) = 1 THEN segs[1]
    ELSE segs[1] \o <<"/">> \o JoinSlash(Tail(segs))

IsDotSegment(seg) == seg = <<".">>
IsDotDotSegment(seg) == seg \in {<<"..">>, <<".", ".">>}

\* The loop of urljoin over the segments: ".." takes the last resolved segment
\* away if there is one, "." is left out.
RECURSIVE ResolveDots(_, _)
ResolveDots(segs, out) ==
    IF segs = <<>> THEN out
    ELSE IF IsDotDotSegment(segs[1])
    THEN ResolveDots(Tail(segs), IF out = <<>> THEN out ELSE SubSeq(out, 1, Len(out) - 1))
    ELSE IF IsDotSegment(segs[1]) THEN ResolveDots(Tail(segs), out)
    ELSE ResolveDots(Tail(segs), Append(out, segs[1]))

\* The start of urlsplit(url, scheme): the scheme is "http" (abs) for a URL that
\* starts with "http:" and the given one otherwise; the netloc stands behind
\* "//" in front of the rest and ends in front of "/", "?" or "#".
SplitNetloc(url0, scheme_abs) ==
    With(CleanUrl(url0), LAMBDA url :
        IF url # <<>> /\ IsHttpToken(url[1])
        THEN With(PrefixBefore(Tail(url), {"/", "?", "#"}), LAMBDA nl :
                 [abs |-> TRUE,
                  netloc |-> ConcatToks(SubSeq(url[1], 8, Len(url[1])), nl),
                  rest |-> SubSeq(url, Len(nl) + 2, Len(url))])
        ELSE
        With(url # <<>> /\ Len(url[1]) = 5 /\ StartsWithFold(url[1], "http:"), LAMBDA bare :
        With(IF bare THEN Tail(url) ELSE url, LAMBDA rest :
            IF Len(rest) >= 2 /\ rest[1] = "/" /\ rest[2] = "/"
            THEN With(PrefixBefore(SubSeq(rest, 3, Len(rest)), {"/", "?", "#"}), LAMBDA nl :
                     [abs |-> bare \/ scheme_abs,
                      netloc |-> ConcatToks("", nl),
                      rest |-> SubSeq(rest, Len(nl) + 3, Len(rest))])
            ELSE [abs |-> bare \/ scheme_abs, netloc |-> "", rest |-> rest])))

\* urlparse(url, scheme): behind the netloc, the fragment starts at the first
\* "#", the query at the first "?" in front of it, the params at the first ";"
\* of the last path segment.
urlparse(url, scheme_abs) ==
    With(SplitNetloc(url, scheme_abs), LAMBDA front :
    With(PrefixBefore(front.rest, {"#"}), LAMBDA beforeHash :
    With(PrefixBefore(beforeHash, {"?"}), LAMBDA full :
    With(SplitSlash(full, <<>>), LAMBDA segs :
    With(segs[Len(segs)], LAMBDA last :
    With(PrefixBefore(last, {";"}), LAMBDA lastPath :
        [abs |-> front.abs,
         netloc |-> front.netloc,
         path |-> SubSeq(full, 1, Len(full) - Len(last) + Len(lastPath)),
         params |-> SubSeq(last, Len(lastPath) + 2, Len(last)),
         query |-> SubSeq(beforeHash, Len(full) + 2, Len(beforeHash)),
         fragment |-> SubSeq(front.rest, Len(beforeHash) + 2, Len(front.rest))]))))))

\* urlunparse(parts): empty params, query and fragment are left out; "//" and
\* the netloc stand in front of the path when there is a netloc, or a scheme
\* and a path that does not start with "//", and that path starts with "/".
urlunparse(abs, netloc, path, params, query, fragment) ==
    With(IF params # <<>> THEN path \o <<";">> \o params ELSE path, LAMBDA p1 :
    With(netloc # "" \/ (abs /\ ~(Len(p1) >= 2 /\ p1[1] = "/" /\ p1[2] = "/")), LAMBDA behind :
        (IF abs /\ behind THEN <<"http://" \o netloc>>
         ELSE IF abs THEN <<"http:">>
         ELSE IF behind THEN <<"/", "/", netloc>>
         ELSE <<>>)
        \o (IF behind /\ p1 # <<>> /\ p1[1] # "/" THEN <<"/">> \o p1 ELSE p1)
        \o (IF query # <<>> THEN <<"?">> \o query ELSE <<>>)
        \o (IF fragment # <<>> THEN <<"#">> \o fragment ELSE <<>>)))

\* The path urljoin gives a target with a path or params: that of the target
\* when it starts with "/", else the directory of the base path and the path
\* of the target, without the empty segments in between; the dot segments are
\* resolved, and a path that ends on one ends with "/".
JoinedPath(base_path, own_path) ==
    With(SplitSlash(base_path, <<>>), LAMBDA parts :
    With((IF parts[Len(parts)] # <<>> THEN SubSeq(parts, 1, Len(parts) - 1) ELSE parts)
         \o SplitSlash(own_path, <<>>), LAMBDA merged :
    With(IF own_path # <<>> /\ own_path[1] = "/" THEN SplitSlash(own_path, <<>>)
         ELSE <<merged[1]>>
              \o SelectSeq(SubSeq(merged, 2, Len(merged) - 1), LAMBDA g : g # <<>>)
              \o (IF Len(merged) > 1 THEN <<merged[Len(merged)]>> ELSE <<>>), LAMBDA segments :
    With(JoinSlash(IF IsDotSegment(segments[Len(segments)])
                      \/ IsDotDotSegment(segments[Len(segments)])
                   THEN Append(ResolveDots(segments, <<>>), <<>>)
                   ELSE ResolveDots(segments, <<>>)), LAMBDA joined :
        IF joined = <<>> THEN <<"/">> ELSE joined))))

\* urljoin(base, href)
UrlJoin(base, href) ==
    IF base = <<>> THEN href
    ELSE IF href = <<>> THEN base
    ELSE
    With(urlparse(base, FALSE), LAMBDA b :
    With(urlparse(href, b.abs), LAMBDA u :
        IF u.abs # b.abs THEN href
        ELSE IF u.netloc # ""
        THEN urlunparse(u.abs, u.netloc, u.path, u.params, u.query, u.fragment)
        ELSE IF u.path = <<>> /\ u.params = <<>>
        THEN urlunparse(u.abs, b.netloc, b.path, b.params,
                        IF u.query = <<>> THEN b.query ELSE u.query, u.fragment)
        ELSE urlunparse(u.abs, b.netloc, JoinedPath(b.path, u.path),
                        u.params, u.query, u.fragment)))

\* [0-9a-fA-F]
IsHexDigit(c) ==
    IsDigit(c) \/ c \in {"a", "b", "c", "d", "e", "f", "A", "B", "C", "D", "E", "F"}

\* ipaddress._parse_octet accepts the characters: one to three decimal digits,
\* no leading zero in front of another digit, at most 255.
ValidOctet(o) ==
    /\ o # <<>> /\ Len(o) <= 3
    /\ \A i \in 1..Len(o) : IsDigit(o[i])
    /\ (Len(o) > 1 => o[1] # "0")
    /\ DigitsValue(o, 0) <= 255

\* ipaddress.IPv4Address accepts the characters: four octets between dots.
ValidIPv4(cs) ==
    With(SplitOn(cs, ".", <<>>), LAMBDA octets :
        Len(octets) = 4 /\ \A i \in 1..4 : ValidOctet(octets[i]))

\* ipaddress._parse_hextet accepts the characters: one to four hex digits.
ValidHextet(h) == h # <<>> /\ Len(h) <= 4 /\ \A i \in 1..Len(h) : IsHexDigit(h[i])

\* The rest of IPv6Address._ip_int_from_string, on the parts between the
\* colons: at most nine; at most one empty part inside (the "::"), which
\* stands for one hextet or more; an empty part at an end only next to
\* that one; without "::" eight parts; every other part a hextet.
ValidHextets(parts) ==
    LET n == Len(parts)
        skips == {i \in 2..(n - 1) : parts[i] = <<>>}
        skip == CHOOSE i \in skips : TRUE
        hi == IF parts[1] = <<>> THEN skip - 2 ELSE skip - 1
        lo == IF parts[n] = <<>> THEN n - skip - 1 ELSE n - skip
    IN  /\ n <= 9
        /\ Cardinality(skips) <= 1
        /\ IF skips # {}
           THEN /\ (parts[1] = <<>> => hi = 0)
                /\ (parts[n] = <<>> => lo = 0)
                /\ 8 - (hi + lo) >= 1
                /\ \A i \in (1..hi) \cup ((n - lo + 1)..n) : ValidHextet(parts[i])
           ELSE n = 8 /\ \A i \in 1..n : ValidHextet(parts[i])

\* ipaddress.IPv6Address accepts the characters: a scope id behind "%" is
\* not empty and holds no "%"; the address has three parts or more between
\* colons; a last part with a dot is an IPv4 address and counts as two
\* hextets.
ValidIPv6(cs) ==
    With(PrefixBefore(cs, {"%"}), LAMBDA addr :
    With(SubSeq(cs, Len(addr) + 2, Len(cs)), LAMBDA scope_id :
    With(SplitOn(addr, ":", <<>>), LAMBDA parts :
        /\ (Len(addr) < Len(cs) =>
               scope_id # <<>> /\ \A i \in 1..Len(scope_id) : scope_id[i] # "%")
        /\ Len(parts) >= 3
        /\ IF \E i \in 1..Len(parts[Len(parts)]) : parts[Len(parts)][i] = "."
           THEN /\ ValidIPv4(parts[Len(parts)])
                /\ ValidHextets(SubSeq(parts, 1, Len(parts) - 1) \o << <<"0">>, <<"0">> >>)
           ELSE ValidHextets(parts))))

\* urllib's _check_bracketed_host passes the host between "[" and "]": one
\* that starts with "v" matches v[a-fA-F0-9]+\..+ as a whole, any other is
\* an IPv6 address (ip_address raises on anything else but an IPv4 address,
\* which is rejected in brackets).
ValidBracketedHost(host) ==
    IF host # <<>> /\ host[1] = "v"
    THEN \E k \in 3..(Len(host) - 1) :
            host[k] = "." /\ \A j \in 2..(k - 1) : IsHexDigit(host[j])
    ELSE ValidIPv6(host)

\* urlsplit raises ValueError on a URL with this netloc: it holds one of "[" and "]"
\* without the other, or both around a host that is no IPv6 or IPvFuture
\* address (the text behind the first "[" up to the next "]").
NetlocRaises(netloc) ==
    With(Chars(netloc), LAMBDA cs :
    With(FirstIndex(cs, "["), LAMBDA open :
    With(FirstIndex(cs, "]"), LAMBDA close :
        IF open = 0 /\ close = 0 THEN FALSE
        ELSE IF open = 0 \/ close = 0 THEN TRUE
        ELSE ~ValidBracketedHost(PrefixBefore(SubSeq(cs, open + 1, Len(cs)), {"]"})))))

UrlParseRaises(url) == NetlocRaises(SplitNetloc(url, FALSE).netloc)

\* urljoin(base, href) raises ValueError: it parses the base and then the
\* target, unless one of them is empty.
UrlJoinRaises(base, href) ==
    base # <<>> /\ href # <<>> /\ (UrlParseRaises(base) \/ UrlParseRaises(href))

\* urlparse(url).netloc.lower()
NetlocLower(url) == LowerStr(SplitNetloc(url, FALSE).netloc, 1)

\* False when urlparse raises on one of the two.
is_same_domain(url, base) ==
    With(SplitNetloc(url, FALSE).netloc, LAMBDA netloc :
    With(SplitNetloc(base, FALSE).netloc, LAMBDA base_netloc :
        /\ ~NetlocRaises(netloc)
        /\ ~NetlocRaises(base_netloc)
        /\ LowerStr(netloc, 1) = LowerStr(base_netloc, 1)))

\* str.rstrip("/") on a string.
RECURSIVE RStripSlash(_)
RStripSlash(str) ==
    IF Len(str) > 0 /\ SubSeq(str, Len(str), Len(str)) = "/"
    THEN RStripSlash(SubSeq(str, 1, Len(str) - 1))
    ELSE str

\* allowlist_filter(src, url), on the strings the URL and the home URL spell.
allowlist_filter(src, url) ==
    IF src.urls_home = <<>> THEN TRUE
    ELSE IF src.source_id = "BA_CITY_NEWS"
    THEN /\ StrContains(WordOf(url), "/transparentne-mesto/aktuality")
         /\ RStripSlash(WordOf(url)) # RStripSlash(WordOf(src.urls_home))
    ELSE IF src.source_id = "SR_ZJAZD"
    THEN RStripSlash(WordOf(url)) # RStripSlash(WordOf(src.urls_home))
    ELSE TRUE

\* -------------------------------------------------- guess_date_from_text

\* \w of the regular expressions, on the one-character tokens of a context.
IsWordChar(c) == IsDigit(c) \/ c \in {"a", "b", "A", "B", "_"}

\* The length of the run of digits that starts at position p.
RECURSIVE DigitRun(_, _)
DigitRun(s, p) == IF p > Len(s) \/ ~IsDigit(s[p]) THEN 0 ELSE 1 + DigitRun(s, p + 1)

\* \b in front of the word character at position p.
BoundaryBefore(s, p) == p = 1 \/ ~IsWordChar(s[p - 1])

\* \b behind a word character, q being the position after it.
BoundaryAfter(s, q) == q > Len(s) \/ ~IsWordChar(s[q])

\* The character at position p, "" past the end.
CharAt(s, p) == IF p \in 1..Len(s) THEN s[p] ELSE ""

\* The number the digits of s from position p spell, n digits long.
NumberAt(s, p, n) == DigitsValue(SubSeq(s, p, p + n - 1), 0)

\* The match of \b(\d{1,2})\.(\d{1,2})\.(\d{4})\b that starts at position p:
\* its three groups as numbers, or no match.
DayFirstMatch(s, p) ==
    LET n1 == DigitRun(s, p)
        p2 == p + n1 + 1
        n2 == DigitRun(s, p2)
        p3 == p2 + n2 + 1
    IN  IF /\ BoundaryBefore(s, p)
           /\ n1 \in {1, 2} /\ CharAt(s, p2 - 1) = "."
           /\ n2 \in {1, 2} /\ CharAt(s, p3 - 1) = "."
           /\ DigitRun(s, p3) = 4 /\ BoundaryAfter(s, p3 + 4)
        THEN [ok |-> TRUE, g1 |-> NumberAt(s, p, n1), g2 |-> NumberAt(s, p2, n2),
              g3 |-> NumberAt(s, p3, 4)]
        ELSE [ok |-> FALSE]

\* The match of \b(\d{4})-(\d{2})-(\d{2})\b that starts at position p.
IsoMatch(s, p) ==
    IF /\ BoundaryBefore(s, p)
       /\ DigitRun(s, p) = 4 /\ CharAt(s, p + 4) = "-"
       /\ DigitRun(s, p + 5) = 2 /\ CharAt(s, p + 7) = "-"
       /\ DigitRun(s, p + 8) = 2 /\ BoundaryAfter(s, p + 10)
    THEN [ok |-> TRUE, g1 |-> NumberAt(s, p, 4), g2 |-> NumberAt(s, p + 5, 2),
          g3 |-> NumberAt(s, p + 8, 2)]
    ELSE [ok |-> FALSE]

\* pat.search(s) for the day-first pattern: the leftmost match at or after p.
RECURSIVE SearchDayFirst(_, _)
SearchDayFirst(s, p) ==
    IF p > Len(s) THEN [ok |-> FALSE]
    ELSE IF ~IsDigit(s[p]) THEN SearchDayFirst(s, p + 1)
    ELSE LET m == DayFirstMatch(s, p)
         IN  IF m.ok THEN m ELSE SearchDayFirst(s, p + 1)

\* pat.search(s) for the year-first pattern.
RECURSIVE SearchIso(_, _)
SearchIso(s, p) ==
    IF p > Len(s) THEN [ok |-> FALSE]
    ELSE IF ~IsDigit(s[p]) THEN SearchIso(s, p + 1)
    ELSE LET m == IsoMatch(s, p)
         IN  IF m.ok THEN m ELSE SearchIso(s, p + 1)

IsLeap(y) == (y % 4 = 0 /\ y % 100 # 0) \/ y % 400 = 0

DaysInMonth(y, m) ==
    IF m = 2 THEN (IF IsLeap(y) THEN 29 ELSE 28)
    ELSE IF m \in {4, 6, 9, 11} THEN 30 ELSE 31

\* What datetime(y, m, d) accepts.
ValidDate(y, m, d) == y \in 1..9999 /\ m \in 1..12 /\ d \in 1..DaysInMonth(y, m)

\* The days from 0000-03-01 to the date y-m-d.
DayNumber(y, m, d) ==
    LET yy == IF m <= 2 THEN y - 1 ELSE y
        mp == (m + 9) % 12
    IN  365 * yy + yy \div 4 - yy \div 100 + yy \div 400 + (153 * mp + 2) \div 5 + d - 1

\* The date whose ordinal the datetimes count as day 0: 2026-02-02.
EpochDay == DayNumber(2026, 2, 2)

\* The datetime dt_parse gives for the date y-m-d: its time of day is 00:00.
Midnight(y, m, d) == DateTime(DayNumber(y, m, d) - EpochDay, 0)

\* tz.tzlocal(): the local zone, as dateutil reads it from the C library: the
\* offset of its standard time east of UTC, in hours (-time.timezone), and
\* whether it has daylight saving time (time.daylight, with another offset).
Zone(std_offset, hasdst) == [std_offset |-> std_offset, hasdst |-> hasdst]

ZoneUTC == Zone(0, FALSE)           \* UTC
ZoneBratislava == Zone(1, TRUE)     \* Europe/Bratislava
ZoneLondon == Zone(0, TRUE)         \* Europe/London
ZoneTokyo == Zone(9, FALSE)         \* Asia/Tokyo
ZoneBogota == Zone(-5, FALSE)       \* America/Bogota

\* The zone of the runs of main.
HomeZone == ZoneBratislava

\* d.replace(tzinfo=tzlocal()).astimezone(tzlocal()): the same wall-clock time
\* in the local zone.  The conversion goes through UTC and, in a zone with
\* daylight saving time, looks at the time one saving earlier: on the midnight
\* of 0001-01-01, the first datetime there is, it raises OverflowError in a
\* zone east of UTC or with daylight saving time, and the except clause takes
\* the pattern as not parsed; at or west of UTC without daylight saving time
\* that midnight converts, and every later midnight converts in every zone.
LocalTime(d, zone) ==
    IF d = None THEN None
    ELSE IF d = Midnight(1, 1, 1) /\ (zone.hasdst \/ zone.std_offset > 0) THEN None
    ELSE d

\* Plausible slip: the day-first text read strictly as day, month, year.
ParseDayFirstStrict(d, m, y) ==
    IF ValidDate(y, m, d) THEN Midnight(y, m, d) ELSE None

\* dt_parse("d.m.yyyy", dayfirst=True, fuzzy=True): None stands for the
\* exception it raises.  dateutil (resolve_ymd) takes a first number above 31
\* for the year, and then the four-digit number for the month when it is at
\* most 12 and for the day otherwise.  Else it takes the first number for the
\* day when it is above 12 or the second can be a month, and for the month
\* otherwise.  The four-digit text is never completed to a century.
ParseDayFirst(d, m, y) ==
    IF d > 31
    THEN IF y <= 12
         THEN (IF ValidDate(d, y, m) THEN Midnight(d, y, m) ELSE None)
         ELSE (IF ValidDate(d, m, y) THEN Midnight(d, m, y) ELSE None)
    ELSE IF d > 12 \/ m <= 12
         THEN (IF ValidDate(y, m, d) THEN Midnight(y, m, d) ELSE None)
         ELSE (IF ValidDate(y, d, m) THEN Midnight(y, d, m) ELSE None)

\* dt_parse("y-m-d", fuzzy=True)
ParseIso(y, m, d) ==
    IF ValidDate(y, m, d) THEN Midnight(y, m, d) ELSE None

\* guess_date_from_text(s): for each pattern in turn, the leftmost match is
\* parsed; the first that parses and converts is returned as a local datetime.
guess_date_from_text(s, zone) ==
    LET t == norm_space(s)
        m1 == SearchDayFirst(t, 1)
        d1 == IF m1.ok THEN LocalTime(ParseDayFirst(m1.g1, m1.g2, m1.g3), zone) ELSE None
        m2 == SearchIso(t, 1)
        d2 == IF m2.ok THEN LocalTime(ParseIso(m2.g1, m2.g2, m2.g3), zone) ELSE None
    IN  IF d1 # None THEN d1 ELSE d2

\* The first link from i on whose target makes urljoin raise, reached without
\* being filtered out before, or 0.
RECURSIVE FirstRaisingLink(_, _, _)
FirstRaisingLink(src, links, i) ==
    IF i > Len(links) THEN 0
    ELSE LET href == safe_text(links[i].href)
         IN  IF href = <<>> \/ BadHref(href) \/ Len(norm_space(links[i].text)) < 12
             THEN FirstRaisingLink(src, links, i + 1)
             ELSE IF UrlJoinRaises(src.urls_home, href) THEN i
             ELSE FirstRaisingLink(src, links, i + 1)

\* The candidate loop of fetch_html_list.  A link carries its href, its visible
\* text and the text of its parent element.
RECURSIVE HtmlCandidates(_, _, _, _)
HtmlCandidates(src, links, i, zone) ==
    IF i > Len(links) THEN <<>>
    ELSE LET href == safe_text(links[i].href)
             text == norm_space(links[i].text)
             rest == HtmlCandidates(src, links, i + 1, zone)
             ctx == norm_space(safe_text(links[i].text) \o <<" ">> \o safe_text(links[i].parent))
         IN  IF href = <<>> \/ BadHref(href) THEN rest
             ELSE IF Len(text) < 12 THEN rest
             ELSE With(strip_utm(UrlJoin(src.urls_home, href)), LAMBDA abs_url :
                      IF ~is_same_domain(abs_url, src.urls_home) THEN rest
                      ELSE IF ~allowlist_filter(src, abs_url) THEN rest
                      ELSE <<[title |-> text, url |-> abs_url,
                              pub_dt |-> guess_date_from_text(ctx, zone), summary |-> <<>>]>> \o rest)

\* ----------------------------------------------------------------- output

\* it.published or ""
PublishedOrEmpty(it) == IF it.published = None THEN <<>> ELSE it.published.iso

\* Plausible slip: the score not negated, so that low scores come first.
SortKeyScoreAscending(it) == <<it.score, PublishedOrEmpty(it), Codes(Lower(it.title))>>

\* The sort key (-it.score, it.published or "", it.title.lower()).
SortKey(it) == <<0 - it.score, PublishedOrEmpty(it), Codes(Lower(it.title))>>

\* Python's ordering of two such key tuples: k1 < k2.
KeyLess(k1, k2) ==
    IF k1[1] # k2[1] THEN k1[1] < k2[1]
    ELSE IF k1[2] # k2[2] THEN LexLess(k1[2], k2[2])
    ELSE LexLess(k1[3], k2[3])

\* Plausible slip: an unstable sort that puts an item before its equals.
RECURSIVE InsertBeforeEquals(_, _)
InsertBeforeEquals(sorted, it) ==
    IF sorted = <<>> THEN <<it>>
    ELSE IF ~KeyLess(SortKey(sorted[1]), SortKey(it)) THEN <<it>> \o sorted
    ELSE <<sorted[1]>> \o InsertBeforeEquals(Tail(sorted), it)

\* One step of a stable sort: it goes after every element whose key is not greater.
RECURSIVE InsertByKey(_, _)
InsertByKey(sorted, it) ==
    IF sorted = <<>> THEN <<it>>
    ELSE IF KeyLess(SortKey(it), SortKey(sorted[1])) THEN <<it>> \o sorted
    ELSE <<sorted[1]>> \o InsertByKey(Tail(sorted), it)

\* sorted(items, key=...): ascending in the key, equal keys in input order.
RECURSIVE sort_items(_)
sort_items(items) ==
    IF items = <<>> THEN <<>>
    ELSE InsertByKey(sort_items(SubSeq(items, 1, Len(items) - 1)), items[Len(items)])

\* The key of dedupe: (strip_utm(it.url), norm_key(it.title)).
DedupeKey(it) == <<strip_utm(it.url), norm_key(it.title)>>

\* Plausible slip: the key is never added to seen.
RECURSIVE DedupeLoopNoSeen(_, _, _, _)
DedupeLoopNoSeen(items, i, seen, out) ==
    IF i > Len(items) THEN out
    ELSE IF DedupeKey(items[i]) \in seen
         THEN DedupeLoopNoSeen(items, i + 1, seen, out)
         ELSE DedupeLoopNoSeen(items, i + 1, seen, Append(out, items[i]))

\* The loop of dedupe from item i on, with the keys seen and the items kept so far.
RECURSIVE DedupeLoop(_, _, _, _)
DedupeLoop(items, i, seen, out) ==
    IF i > Len(items) THEN out
    ELSE IF DedupeKey(items[i]) \in seen
         THEN DedupeLoop(items, i + 1, seen, out)
         ELSE DedupeLoop(items, i + 1, seen \cup {DedupeKey(items[i])}, Append(out, items[i]))

dedupe(items) == DedupeLoop(items, 1, {}, <<>>)

\* fmt_date(pub_iso): "" without a date, else the date and the time of day of
\* the text, "%Y-%m-%d %H:%M" (seconds and offset dropped).
fmt_date(pub_iso) == IF pub_iso = None THEN <<>> ELSE <<pub_iso.iso[1], pub_iso.iso[2]>>

geo_order == <<"BA", "BSK", "SR", "SUSEDIA", "EU_GLOBAL">>

\* The heading of a geo section (written here without diacritics).
geo_title(g) ==
    CASE g = "BA" -> "Bratislava"
      [] g = "BSK" -> "Bratislavsky kraj"
      [] g = "SR" -> "Slovensko"
      [] g = "SUSEDIA" -> "Susedia"
      [] g = "EU_GLOBAL" -> "EU / global"
      [] OTHER -> g

\* The five lines written for one item: title with its time prefix, tags (or
\* the placeholder), source and score, link, blank.
ItemLines(it) ==
    << [line |-> "head", when |-> fmt_date(it.published), title |-> it.title],
       [line |-> "tags", tags |-> it.tags, placeholder |-> it.tags = <<>>],
       [line |-> "source", source_name |-> it.source_name, score |-> it.score],
       [line |-> "link", url |-> it.url],
       [line |-> "blank"] >>

RECURSIVE ChunkLines(_)
ChunkLines(chunk) ==
    IF chunk = <<>> THEN <<>> ELSE ItemLines(chunk[1]) \o ChunkLines(Tail(chunk))

\* Plausible slip: the heading written before the test for an empty bucket.
SectionLinesAlways(title, chunk) ==
    <<[line |-> "section", title |-> title], [line |-> "blank"]>> \o ChunkLines(chunk)

\* A section: nothing for an empty chunk, else heading, blank, the items.
SectionLines(title, chunk) ==
    IF chunk = <<>> THEN <<>>
    ELSE <<[line |-> "section", title |-> title], [line |-> "blank"]>> \o ChunkLines(chunk)

\* by_geo[g]: the items of geo g, in input order.
ByGeo(items, g) == SelectSeq(items, LAMBDA it : it.geo = g)

\* other: the items whose geo is none of geo_order.
OtherGeo(items) ==
    SelectSeq(items, LAMBDA it : \A k \in 1..Len(geo_order) : it.geo # geo_order[k])

\* for g in geo_order: the sections from the k-th geo on.
RECURSIVE GeoSections(_, _)
GeoSections(items, k) ==
    IF k > Len(geo_order) THEN <<>>
    ELSE SectionLines(geo_title(geo_order[k]), sort_items(ByGeo(items, geo_order[k])))
         \o GeoSections(items, k + 1)

\* write_daily_brief(items, out_path): the lines of the digest; at is what
\* now_local() gives when the digest is written.
write_daily_brief(items, at) ==
    LET top == << [line |-> "title", title |-> "Denny brief"],
                  [line |-> "blank"],
                  [line |-> "generated", at |-> <<at.day, at.hour>>],
                  [line |-> "blank"] >>
    IN  IF items = <<>>
        THEN top \o <<[line |-> "empty"]>>
        ELSE top \o GeoSections(items, 1) \o SectionLines("Ostatne", sort_items(OtherGeo(items)))

\* The intra-source step of fetch_html_list: candidates (title, url, pub_dt,
\* summary) in document order, the first of each key (url, norm_key(title)) made
\* into an Item.
RECURSIVE HtmlItemsLoop(_, _, _, _, _, _)
HtmlItemsLoop(src, candidates, i, seen, items, now0) ==
    IF i > Len(candidates) THEN items
    ELSE LET c == candidates[i]
             key == <<c.url, norm_key(c.title)>>
         IN  IF key \in seen
             THEN HtmlItemsLoop(src, candidates, i + 1, seen, items, now0)
             ELSE HtmlItemsLoop(src, candidates, i + 1, seen \cup {key},
                      Append(items, MakeItem(src, c.title, c.url, c.pub_dt, c.summary, now0)),
                      now0)

\* Plausible slip: the emptiness test made on the candidates, before the
\* sort and the cut to the limit.
fetch_html_list_warn_before_cut(src, lim, now0, resp, zone) ==
    IF src.urls_home = <<>>
    THEN Returned(<<>>, <<Warn(src, "missing urls.home for html_list")>>, 0)
    ELSE IF ~resp.ok
    THEN Returned(<<>>, <<Warn(src, "fetch failed")>>, 1)
    ELSE IF FirstRaisingLink(src, resp.body.links, 1) # 0
    THEN Raised(1)
    ELSE LET candidates == HtmlCandidates(src, resp.body.links, 1, zone)
             items == Slice(sort_items(HtmlItemsLoop(src, candidates, 1, {}, <<>>, now0)), lim)
         IN  Returned(items,
                      IF candidates = <<>>
                      THEN <<Warn(src, "html_list extracted 0 items")>> ELSE <<>>,
                      1)

\* fetch_html_list, given what http_get does when called: resp.ok is FALSE when it
\* raises, otherwise resp.body.links are the links with a target of the region
\* BeautifulSoup selects.
fetch_html_list(src, lim, now0, resp, zone) ==
    IF src.urls_home = <<>>
    THEN Returned(<<>>, <<Warn(src, "missing urls.home for html_list")>>, 0)
    ELSE IF ~resp.ok
    THEN Returned(<<>>, <<Warn(src, "fetch failed")>>, 1)
    ELSE IF FirstRaisingLink(src, resp.body.links, 1) # 0
    THEN Raised(1)
    ELSE LET candidates == HtmlCandidates(src, resp.body.links, 1, zone)
             items == Slice(sort_items(HtmlItemsLoop(src, candidates, 1, {}, <<>>, now0)), lim)
         IN  Returned(items,
                      IF items = <<>>
                      THEN <<Warn(src, "html_list extracted 0 items")>> ELSE <<>>,
                      1)

\* ------------------------------------------------------------------- main

\* Plausible slip: the loop tests for html_list only and sends the rest to fetch_rss.
DispatchRssByDefault(src) ==
    IF src.fetch_method = "html_list" THEN "fetch_html_list" ELSE "fetch_rss"

\* The branch of the run loop a source takes.
Dispatch(src) ==
    IF src.fetch_method = "rss" THEN "fetch_rss"
    ELSE IF src.fetch_method = "html_list" THEN "fetch_html_list"
    ELSE "none"

\* The registry entries a run can select (source ids are unique in a registry).
SrcOne == SourceCfg("S1", "One", <<"http://h1", "/", "feed">>, <<"http://h1", "/">>,
                    "rss", "BA", "L1", 1, "none", <<"t1">>)
SrcTwo == SourceCfg("SR_ZJAZD", "Two", <<>>, <<"http://h2", "/">>,
                    "html_list", "SR", "L2", 2, "urgent_boost", <<>>)
SrcNoFeed == SourceCfg("S3", "Three", <<>>, <<"http://h1", "/">>,
                       "rss", "BSK", "L1", 0, "practical_boost", <<>>)
SrcNoHome == SourceCfg("S4", "Four", <<"http://h1", "/", "feed">>, <<>>,
                       "html_list", "SUSEDIA", "L1", 0, "none", <<>>)
SrcApi == SourceCfg("S5", "Five", <<"http://h1", "/", "feed">>, <<"http://h1", "/">>,
                    "api", "EU_GLOBAL", "L1", 0, "none", <<>>)
SrcNeg == SourceCfg("S6", "Six", <<"http://h1", "/", "feed">>, <<>>,
                    "rss", "XX", "L3", -4, "low_impact", <<"t1", "t2">>)

Catalog == {SrcOne, SrcTwo, SrcNoFeed, SrcNoHome, SrcApi, SrcNeg}

SourceLists ==
    {ss \in SeqsUpTo(Catalog, MaxSources) :
        ss # <<>> /\ \A i, j \in 1..Len(ss) : i # j => ss[i] # ss[j]}

U1 == <<"http://h1", "/", "a">>
U2 == <<"http://h1", "/", "b">>
Today == DateTime(0, 0)
Yesterday == DateTime(-1, 23)
WeekAgo == DateTime(-7, 0)
LongText == <<"a", "a", "a", "a", "a", "a", "a", "a", "a", "a", "a", "a">>

Entry(title, link, pub_dt) ==
    [title |-> title, link |-> link, summary |-> <<" ", "b", " ">>, pub_dt |-> pub_dt]

\* What feedparser can make of a fetched feed.
FeedBodies ==
    { [bozo |-> FALSE, entries |-> <<>>],
      [bozo |-> FALSE,
       entries |-> << Entry(<<"a", " ", " ", "b">>, U1 \o <<"?", "utm_", "a", "=", "a">>, Today),
                      Entry(<<" ">>, U2, Today),
                      Entry(<<"b">>, U2, WeekAgo) >>],
      [bozo |-> TRUE,
       entries |-> << Entry(<<"A">>, <<" ">> \o U1, None),
                      Entry(<<"a">>, <<"?">>, Yesterday) >>] }

Link(href, text, parent) == [href |-> href, text |-> text, parent |-> parent]

\* The text of a date in a link's context: none, today as D.M.YYYY, yesterday
\* as YYYY-MM-DD.
NoDate == <<>>
TodayText == <<"2", ".", "2", ".", "2", "0", "2", "6">>
YesterdayText == <<"2", "0", "2", "6", "-", "0", "2", "-", "0", "1">>

\* The links of the region of a fetched page.
PageBodies ==
    { [links |-> <<>>],
      [links |-> << Link(<<"/", "a", "?", "gclid", "=", "a">>, LongText, TodayText),
                    Link(<<"javascript:", "a">>, LongText, NoDate),
                    Link(<<"/", "b">>, <<"a", "b">>, NoDate),
                    Link(<<"http://H2", "/", "a">>, <<"A">> \o LongText, NoDate),
                    Link(<<"http://other", "/", "a">>, LongText, NoDate),
                    Link(<<"http://[v1.a]", "/", "a">>, LongText, NoDate),
                    Link(<<"/">>, LongText, NoDate),
                    Link(<<"b">>, LongText \o <<"!">>, YesterdayText) >>],
      [links |-> << Link(<<"/", "a">>, <<"a">>, NoDate) >>],
      [links |-> << Link(<<"/", "a">>, LongText, NoDate),
                    Link(<<"http://[">>, LongText, NoDate) >>],
      [links |-> << Link(<<"/", "/", "[">>, LongText, NoDate),
                    Link(<<"/", "a">>, LongText, NoDate) >>] }

Responses(bodies) == {[ok |-> FALSE]} \cup {[ok |-> TRUE, body |-> b] : b \in bodies}

Limits == (-1)..MaxLimit

\* The "enabled" flag of the registry entry of a selected source: absent or true.
EnabledFlag(src) == IF src = SrcOne THEN Missing ELSE JBool(TRUE)

\* The registry entry pick_sources makes the given SourceCfg of.
RegEntry(src) ==
    [source_id |-> JStr(<<src.source_id>>),
     name |-> JStr(<<src.name>>),
     enabled |-> EnabledFlag(src),
     feed |-> IF src.urls_feed = <<>> THEN Missing ELSE JStr(src.urls_feed),
     home |-> IF src.urls_home = <<>> THEN None ELSE JStr(src.urls_home),
     method |-> JStr(<<src.fetch_method>>),
     geo |-> JStr(<<src.geo_default>>),
     brief |-> JStr(<<src.brief_level>>),
     boost |-> JInt(src.boost),
     impact_bias |-> JStr(<<src.impact_bias>>),
     tags_default |-> IF src.tags_default = <<>> THEN Missing
                      ELSE JList([i \in 1..Len(src.tags_default) |-> JStr(<<src.tags_default[i]>>)])]

\* The registries of the runs: entries with distinct ids, in any order.
RunRegistries == {[sources |-> [i \in 1..Len(ss) |-> RegEntry(ss[i])]] : ss \in SourceLists}

\* --sources: not given, a list that names a source no registry holds, or a
\* list with a piece that has a blank inside ("S1,S1 S9").
RunSourceArgs ==
    { <<>>,
      <<"SR_ZJAZD", ",", " ", "S1", ",", "S6", ",", "S9">>,
      <<"S1", ",", "S1", " ", "S9">> }

Init ==
    /\ pc = "start"
    /\ \/ registry_file = "valid" /\ registry \in RunRegistries
       \/ registry_file \in {"missing", "invalid"} /\ registry = None
    /\ args_sources \in RunSourceArgs
    /\ limit \in Limits
    /\ now = DateTime(0, 0)
    /\ tzlocal = HomeZone
    /\ sources = <<>>
    /\ idx = 0
    /\ all_items = <<>>
    /\ warns = <<>>
    /\ calls = <<>>
    /\ fetches = <<>>
    /\ files = <<>>
    /\ stderr = <<>>
    /\ exit_code = -1
    /\ canon = [step |-> "idle"]
    /\ scoring = [step |-> "idle"]
    /\ agg = [step |-> "idle"]
    /\ digest = [step |-> "idle"]
    /\ pick = [step |-> "idle"]
    /\ guess = [step |-> "idle"] /\ strat = [step |-> "idle"]
    /\ BuildIdle

harnessVars == <<canon, scoring, agg, digest, pick, guess, strat, build>>

\* if not reg_path.exists(): print the error, return 2.
AbortNoRegistry ==
    /\ pc = "start" /\ registry_file = "missing"
    /\ stderr' = Append(stderr, [text |-> "ERROR: registry not found"])
    /\ exit_code' = 2
    /\ pc' = "aborted"
    /\ UNCHANGED <<inputVars, sources, idx, all_items, warns, calls, fetches, files, harnessVars>>

\* load_registry raises on a file that is not JSON; nothing in main catches it.
LoadRegistryFails ==
    /\ pc = "start" /\ registry_file = "invalid"
    /\ stderr' = Append(stderr, [text |-> "Traceback"])
    /\ exit_code' = 1
    /\ pc' = "crashed"
    /\ UNCHANGED <<inputVars, sources, idx, all_items, warns, calls, fetches, files, harnessVars>>

\* str.split(","): the pieces of a text between its commas.
RECURSIVE SplitComma(_, _)
SplitComma(text, piece) ==
    IF text = <<>> THEN <<piece>>
    ELSE IF text[1] = "," THEN <<piece>> \o SplitComma(Tail(text), <<>>)
    ELSE SplitComma(Tail(text), Append(piece, text[1]))

\* [s.strip() for s in args.sources.split(",")] if args.sources else None
SourceIds(text) ==
    IF text = <<>> THEN None
    ELSE LET pieces == SplitComma(text, <<>>)
         IN  [list |-> [i \in 1..Len(pieces) |-> Strip(pieces[i])]]

\* set(source_ids) - set(s.source_id for s in sources); the warning prints it
\* sorted.
MissingIds(source_ids, picked) ==
    IF source_ids = None THEN {}
    ELSE {WordOf(source_ids.list[i]) : i \in 1..Len(source_ids.list)}
         \ {picked[k].source_id : k \in 1..Len(picked)}

\* The registry is loaded, the sources are picked, a requested id that was not
\* picked is reported on standard error; the loop starts.
SelectSources ==
    /\ pc = "start" /\ registry_file = "valid"
    /\ LET source_ids == SourceIds(args_sources)
           picked == pick_sources(registry, source_ids)
           missing == MissingIds(source_ids, picked)
       IN  /\ sources' = picked
           /\ stderr' = IF missing # {}
                        THEN Append(stderr, [text |-> "WARN: requested source_id not found/enabled in registry",
                                             missing |-> missing])
                        ELSE stderr
    /\ idx' = 1
    /\ pc' = "loop"
    /\ UNCHANGED <<inputVars, all_items, warns, calls, fetches, files, exit_code, harnessVars>>

\* The http_get calls of one strategy invocation.
FetchLog(src, r, resp) ==
    IF r.fetches = 0 THEN <<>> ELSE <<[source_id |-> src.source_id, ok |-> resp.ok]>>

\* One pass of the loop body for a source whose strategy came back with r:
\* all_items.extend(items); warns.extend(w), unless the strategy raised, which
\* ends main.
LoopBody(src, strategy, r, resp) ==
    /\ calls' = Append(calls, [source_id |-> src.source_id, strategy |-> strategy,
                               raised |-> r.raised, items |-> r.items, warns |-> r.warns])
    /\ fetches' = fetches \o FetchLog(src, r, resp)
    /\ IF r.raised
       THEN /\ pc' = "crashed"
            /\ exit_code' = 1
            /\ stderr' = Append(stderr, [text |-> "Traceback"])
            /\ UNCHANGED <<idx, all_items, warns>>
       ELSE /\ pc' = "loop"
            /\ idx' = idx + 1
            /\ all_items' = all_items \o r.items
            /\ warns' = warns \o r.warns
            /\ UNCHANGED <<exit_code, stderr>>
    /\ UNCHANGED <<inputVars, sources, files, harnessVars>>

RunRss ==
    /\ pc = "loop" /\ idx <= Len(sources)
    /\ Dispatch(sources[idx]) = "fetch_rss"
    /\ \E resp \in Responses(FeedBodies) :
          LoopBody(sources[idx], "fetch_rss", fetch_rss(sources[idx], limit, now, resp), resp)

RunHtmlList ==
    /\ pc = "loop" /\ idx <= Len(sources)
    /\ Dispatch(sources[idx]) = "fetch_html_list"
    /\ \E resp \in Responses(PageBodies) :
          LoopBody(sources[idx], "fetch_html_list",
                   fetch_html_list(sources[idx], limit, now, resp, tzlocal), resp)

RunUnsupported ==
    /\ pc = "loop" /\ idx <= Len(sources)
    /\ Dispatch(sources[idx]) = "none"
    /\ LoopBody(sources[idx], "none",
                Returned(<<>>, <<Warn(sources[idx], "fetch_method not supported (skipped)")>>, 0),
                [ok |-> FALSE])

\* all_items = sort_items(dedupe(all_items)), once the loop has ended.
Aggregate ==
    /\ pc = "loop" /\ idx > Len(sources)
    /\ all_items' = sort_items(dedupe(all_items))
    /\ pc' = "write"
    /\ UNCHANGED <<inputVars, sources, idx, warns, calls, fetches, files, stderr, exit_code,
                   harnessVars>>

\* The warnings file: "\n".join(warns) + "\n", one line per warning.
WarningLines(ws) == ws

\* write_jsonl, write_daily_brief, and run_warnings.txt if there are warnings;
\* return 0.  The digest takes the time anew.
WriteOutputs ==
    /\ pc = "write"
    /\ \E at \in NowTimes :
          /\ at.hour >= now.hour
          /\ files' = [n \in {"items.jsonl", "daily_brief.md"}
                               \cup (IF warns # <<>> THEN {"run_warnings.txt"} ELSE {}) |->
                         CASE n = "items.jsonl" -> all_items
                           [] n = "daily_brief.md" -> write_daily_brief(all_items, at)
                           [] n = "run_warnings.txt" -> WarningLines(warns)]
    /\ stderr' = IF warns # <<>>
                 THEN Append(stderr, [text |-> "WARNINGS written to: run_warnings.txt"])
                 ELSE stderr
    /\ exit_code' = 0
    /\ pc' = "done"
    /\ UNCHANGED <<inputVars, sources, idx, all_items, warns, calls, fetches, harnessVars>>

Next ==
    \/ AbortNoRegistry \/ LoadRegistryFails \/ SelectSources
    \/ RunRss \/ RunHtmlList \/ RunUnsupported
    \/ Aggregate \/ WriteOutputs

Spec == Init /\ [][Next]_vars

\* The source of the run with the given id (ids are unique in a run).
SourceById(sid) == CHOOSE src \in {sources[i] : i \in 1..Len(sources)} : src.source_id = sid

\* The datetime a published text stands for.
FromIso(p) == IF p = None THEN None ELSE DateTime(p.iso[1], p.iso[2])

\* C1: every Item either strategy produces has score = time_score(published, now)
\* + geo weight (BA 3, BSK 2, SR 1, SUSEDIA 1, EU_GLOBAL 1, any other code 1)
\* + the source's boost + the impact bonus (+1 urgent_boost or practical_boost,
\* -1 low_impact, 0 otherwise), not clamped.
C1_ScoreIsSum ==
    \A k \in 1..Len(calls) : \A i \in 1..Len(calls[k].items) :
        LET it == calls[k].items[i]
            src == sources[k]
            geoTerm == CASE src.geo_default = "BA" -> 3
                         [] src.geo_default = "BSK" -> 2
                         [] src.geo_default \in {"SR", "SUSEDIA", "EU_GLOBAL"} -> 1
                         [] OTHER -> 1
            impactTerm == CASE src.impact_bias \in {"urgent_boost", "practical_boost"} -> 1
                            [] src.impact_bias = "low_impact" -> -1
                            [] OTHER -> 0
        IN  /\ calls[k].strategy \in {"fetch_rss", "fetch_html_list"}
            /\ it.source_id = src.source_id
            /\ it.score = time_score(FromIso(it.published), now) + geoTerm + src.boost + impactTerm

\* A feed item published today from a source with geo BA, boost 1 and impact
\* bias none scores 6; an item of a source with boost -4 and low_impact scores
\* below zero; an item of the listing strategy is there too.
C1_Witness ==
    /\ pc = "done"
    /\ \E i \in 1..Len(all_items) :
          /\ all_items[i].source_id = "S1" /\ all_items[i].geo = "BA"
          /\ SourceById("S1").boost = 1 /\ SourceById("S1").impact_bias = "none"
          /\ all_items[i].published # None
          /\ to_date(FromIso(all_items[i].published)) = to_date(now)
          /\ all_items[i].score = 6
    /\ \E i \in 1..Len(all_items) :
          /\ all_items[i].source_id = "S6" /\ SourceById("S6").boost = -4
          /\ all_items[i].score < 0
    /\ \E k \in 1..Len(calls) :
          /\ calls[k].strategy = "fetch_html_list"
          /\ \E i \in 1..Len(calls[k].items) : calls[k].items[i].score = 6

\* C3: an rss source is handled by fetch_rss only, an html_list source by
\* fetch_html_list only; for any other fetch_method no strategy is called, the
\* source gives no item and exactly one warning naming it, and nothing is raised.
C3_Routing ==
    /\ Len(calls) <= Len(sources)
    /\ \A k \in 1..Len(calls) :
          LET src == sources[k]
              c == calls[k]
          IN  /\ c.source_id = src.source_id
              /\ src.fetch_method = "rss" => c.strategy = "fetch_rss"
              /\ src.fetch_method = "html_list" => c.strategy = "fetch_html_list"
              /\ src.fetch_method \notin {"rss", "html_list"} =>
                    /\ c.strategy = "none"
                    /\ c.items = <<>>
                    /\ Len(c.warns) = 1 /\ c.warns[1].source_id = src.source_id
                    /\ ~c.raised
                    /\ \A f \in 1..Len(fetches) : fetches[f].source_id # src.source_id

\* A run over an unsupported source and an rss source, both processed.
C3_Witness ==
    /\ pc = "done"
    /\ Len(calls) = 2
    /\ sources[1].fetch_method = "api" /\ calls[1].strategy = "none"
    /\ warns[1] = Warn(sources[1], "fetch_method not supported (skipped)")
    /\ calls[2].strategy = "fetch_rss" /\ calls[2].items # <<>>

\* The http_get calls made for the source at position k.
FetchesOf(k) == SelectSeq(fetches, LAMBDA f : f.source_id = sources[k].source_id)

\* The URL the strategy of a source fetches: feed_url for rss, home_url for html_list.
StrategyUrl(src) == IF src.fetch_method = "rss" THEN src.urls_feed ELSE src.urls_home

\* C4: for both strategies, a missing URL or a failed fetch gives no item and
\* exactly one warning naming the source, raises nothing, and the source is
\* fetched at most once in the run (not at all without a URL).
C4_FetchFailure ==
    \A k \in 1..Len(calls) :
        LET src == sources[k]
            c == calls[k]
            missing == StrategyUrl(src) = <<>>
            failed == \E f \in 1..Len(FetchesOf(k)) : ~FetchesOf(k)[f].ok
        IN  c.strategy \in {"fetch_rss", "fetch_html_list"} =>
              /\ Len(FetchesOf(k)) <= 1
              /\ missing => Len(FetchesOf(k)) = 0
              /\ (missing \/ failed) =>
                    /\ c.items = <<>>
                    /\ Len(c.warns) = 1 /\ c.warns[1].source_id = src.source_id
                    /\ ~c.raised

\* A finished run in which one strategy found no URL and the other's fetch failed.
C4_Witness ==
    /\ pc = "done"
    /\ Len(calls) = 2
    /\ calls[1].strategy = "fetch_rss" /\ sources[1].urls_feed = <<>>
    /\ calls[2].strategy = "fetch_html_list" /\ sources[2].urls_home # <<>>
    /\ fetches = <<[source_id |-> sources[2].source_id, ok |-> FALSE]>>
    /\ warns = <<Warn(sources[1], "missing urls.feed"), Warn(sources[2], "fetch failed")>>

\* The per-source item lists so far, concatenated in processing order.
RECURSIVE ConcatItems(_)
ConcatItems(cs) ==
    IF cs = <<>> THEN <<>> ELSE ConcatItems(SubSeq(cs, 1, Len(cs) - 1)) \o cs[Len(cs)].items

\* main is over: it returned, or an exception ended it.
RunOver == pc \in {"done", "crashed"}

\* C5: in any run every selected source is processed exactly once, a source
\* that yields a warning stops nothing and drops nothing collected before it,
\* and the aggregation runs only after every source was processed, on the
\* concatenation of the per-source item lists in processing order.
C5_EverySourceProcessedOnce ==
    /\ pc = "loop" => all_items = ConcatItems(calls)
    /\ pc \in {"write", "done"} =>
          /\ Len(calls) = Len(sources)
          /\ all_items = sort_items(dedupe(ConcatItems(calls)))
    /\ RunOver =>
          /\ Len(calls) = Len(sources)
          /\ \A k \in 1..Len(sources) : calls[k].source_id = sources[k].source_id

\* C11: when the page of an html_list source was fetched, fetch_html_list
\* returns exactly one warning with an empty item list and none with a
\* non-empty one; the warning names the source and its text is neither that of
\* a failed fetch nor that of a missing home URL.
C11_EmptyExtractionWarning ==
    \A k \in 1..Len(calls) :
        LET src == sources[k]
            c == calls[k]
            fetched == \E f \in 1..Len(FetchesOf(k)) : FetchesOf(k)[f].ok
        IN  (c.strategy = "fetch_html_list" /\ fetched /\ ~c.raised) =>
              /\ c.items = <<>> =>
                    /\ Len(c.warns) = 1
                    /\ c.warns[1].source_id = src.source_id
                    /\ c.warns[1] # Warn(src, "fetch failed")
                    /\ c.warns[1] # Warn(src, "missing urls.home for html_list")
              /\ c.items # <<>> => c.warns = <<>>

\* A finished run with a limit above zero in which the fetched page of the
\* listing source left no item: the one warning of the run is the
\* empty-extraction warning.
C11_Witness ==
    /\ pc = "done" /\ limit > 0
    /\ Len(calls) = 1
    /\ calls[1].strategy = "fetch_html_list"
    /\ fetches = <<[source_id |-> sources[1].source_id, ok |-> TRUE]>>
    /\ calls[1].items = <<>>
    /\ warns = <<Warn(sources[1], "html_list extracted 0 items")>>
    /\ "run_warnings.txt" \in DOMAIN files

\* The number of warnings the calls from the k-th on returned.
RECURSIVE SumLen(_, _)
SumLen(cs, k) == IF k > Len(cs) THEN 0 ELSE Len(cs[k].warns) + SumLen(cs, k + 1)

\* The number of warnings main prints for requested ids that were not picked.
UnresolvedWarnings ==
    Len(SelectSeq(stderr, LAMBDA e :
            e.text = "WARN: requested source_id not found/enabled in registry"))

\* C13: every warning of a run, of the five kinds, is in the accumulated
\* warning list; the warnings file is written if and only if at least one
\* warning occurred and then holds one line per warning.  Violated: the
\* warning for a requested source id that is not found or not enabled goes to
\* stderr only.
C13_AllWarningsAccumulated ==
    pc = "done" =>
        LET occurred == SumLen(calls, 1) + UnresolvedWarnings
        IN  /\ Len(warns) = occurred
            /\ ("run_warnings.txt" \in DOMAIN files) <=> (occurred > 0)
            /\ ("run_warnings.txt" \in DOMAIN files) => Len(files["run_warnings.txt"]) = occurred

\* C14: a run ends in one of two ways.  With the registry file missing it
\* aborts with a failure exit code, no source selected, no fetch attempted and
\* no file written; a run that reaches extraction writes the item log and the
\* digest and exits with success, whatever the warnings.  Violated: a link that
\* urljoin rejects ends the run inside the source loop with a traceback.
C14_TwoOutcomes ==
    /\ (registry_file = "missing" /\ pc # "start") =>
          /\ pc = "aborted" /\ exit_code = 2
          /\ sources = <<>> /\ calls = <<>> /\ fetches = <<>>
          /\ DOMAIN files = {}
    /\ (registry_file = "valid" /\ pc \in {"done", "crashed", "aborted"}) =>
          /\ pc = "done" /\ exit_code = 0
          /\ {"items.jsonl", "daily_brief.md"} \subseteq DOMAIN files

\* -------------------------------------------- aggregator harness (SpecAgg)

HarnessNow == DateTime(0, 23)

Raw(src, title, url, pub_dt) == [src |-> src, title |-> title, url |-> url, pub_dt |-> pub_dt]

\* What the strategies can extract: titles that differ in case, in punctuation,
\* in non-ASCII letters only; the same article from two sources; equal scores
\* with and without a publish time.
RawEntries ==
    { Raw(SrcOne, <<"a">>, U1, None),
      Raw(SrcTwo, <<"A">>, U1, None),
      Raw(SrcTwo, <<"a", "!">>, U1, None),
      Raw(SrcOne, <<"a">>, U2, None),
      Raw(SrcOne, <<"a">>, U1, Today),
      Raw(SrcTwo, <<"b">>, U2, Today),
      Raw(SrcTwo, <<"b">>, U2, Yesterday),
      Raw(SrcOne, <<"e_acute">>, U2, None),
      Raw(SrcTwo, <<"!">>, U2, None),
      Raw(SrcOne, <<"a", " ", "b">>, U1, Yesterday) }

RawLists == SeqsUpTo(RawEntries, MaxItems)

ItemOf(r) == MakeItem(r.src, r.title, r.url, r.pub_dt, <<>>, HarnessNow)
CandidateOf(r) == [title |-> r.title, url |-> r.url, pub_dt |-> r.pub_dt, summary |-> <<>>]

InitAgg ==
    /\ RunIdle /\ BuildIdle
    /\ canon = [step |-> "idle"]
    /\ scoring = [step |-> "idle"]
    /\ digest = [step |-> "idle"] /\ pick = [step |-> "idle"] /\ guess = [step |-> "idle"] /\ strat = [step |-> "idle"]
    /\ \E raws \in RawLists :
          agg = [step |-> "given", raws |-> raws,
                 items |-> [i \in 1..Len(raws) |-> ItemOf(raws[i])]]

\* dedupe(all_items)
AggDedupe ==
    /\ agg.step = "given"
    /\ agg' = [step |-> "deduped", items |-> agg.items, deduped |-> dedupe(agg.items)]
    /\ UNCHANGED <<runVars, canon, scoring, digest, pick, guess, strat, build>>

\* all_items = sort_items(dedupe(all_items))
AggSort ==
    /\ agg.step = "deduped"
    /\ agg' = [step |-> "aggregated", items |-> agg.items, deduped |-> agg.deduped,
               out |-> sort_items(agg.deduped)]
    /\ UNCHANGED <<runVars, canon, scoring, digest, pick, guess, strat, build>>

\* The aggregator run on its own output.
AggAgain ==
    /\ agg.step = "aggregated"
    /\ agg' = [step |-> "again", items |-> agg.items, deduped |-> agg.deduped,
               out |-> agg.out,
               dedupedAgain |-> dedupe(agg.deduped),
               outAgain |-> sort_items(dedupe(agg.out))]
    /\ UNCHANGED <<runVars, canon, scoring, digest, pick, guess, strat, build>>

\* The dedupe loop of fetch_html_list on the same entries as candidates of one source.
AggIntraSource ==
    /\ agg.step = "given"
    /\ agg' = [step |-> "intra", raws |-> agg.raws,
               kept |-> HtmlItemsLoop(SrcTwo, [i \in 1..Len(agg.raws) |-> CandidateOf(agg.raws[i])],
                                      1, {}, <<>>, HarnessNow)]
    /\ UNCHANGED <<runVars, canon, scoring, digest, pick, guess, strat, build>>

\* sort_items on the list and on one of its permutations.
AggSortPermuted ==
    /\ agg.step = "given"
    /\ \E f \in Permutations(1..Len(agg.items)) :
          LET permuted == [i \in 1..Len(agg.items) |-> agg.items[f[i]]]
          IN  agg' = [step |-> "sorted", items |-> agg.items, permuted |-> permuted,
                      sorted |-> sort_items(agg.items),
                      sortedPermuted |-> sort_items(permuted)]
    /\ UNCHANGED <<runVars, canon, scoring, digest, pick, guess, strat, build>>

NextAgg == AggDedupe \/ AggSort \/ AggAgain \/ AggIntraSource \/ AggSortPermuted

SpecAgg == InitAgg /\ [][NextAgg]_vars

\* The indices of the first occurrence of each key, ascending.
FirstIndices(keys) ==
    SelectSeq([i \in 1..Len(keys) |-> i],
              LAMBDA i : \A j \in 1..(i - 1) : keys[j] # keys[i])

\* The elements of L at the indices ix, in that order.
Pick(L, ix) == [k \in 1..Len(ix) |-> L[ix[k]]]

\* C6: dedupe returns exactly the first occurrence of each deduplication key, in
\* input order, each retained item identical to the input item, and each key of
\* the input exactly once; nothing else is dropped.
C6_DedupeFirstOccurrences ==
    agg.step = "deduped" =>
        LET keys == [i \in 1..Len(agg.items) |-> DedupeKey(agg.items[i])]
        IN  /\ agg.deduped = Pick(agg.items, FirstIndices(keys))
            /\ \A i \in 1..Len(agg.items) :
                  Cardinality({k \in 1..Len(agg.deduped) :
                                 DedupeKey(agg.deduped[k]) = keys[i]}) = 1

\* The same article (same URL, titles equal up to case) from two sources: the
\* item of the source processed first is the one kept.
C6_Witness ==
    /\ agg.step = "deduped"
    /\ agg.items = <<ItemOf(Raw(SrcOne, <<"a">>, U1, None)),
                     ItemOf(Raw(SrcTwo, <<"A">>, U1, None))>>
    /\ agg.deduped = <<ItemOf(Raw(SrcOne, <<"a">>, U1, None))>>

\* The words of a title: the maximal runs of a-z and 0-9 of its lowercased text.
RECURSIVE WordsFrom(_, _, _)
WordsFrom(s, word, words) ==
    IF s = <<>> THEN (IF word = <<>> THEN words ELSE Append(words, word))
    ELSE IF IsLowerAlnum(s[1]) THEN WordsFrom(Tail(s), Append(word, s[1]), words)
    ELSE WordsFrom(Tail(s), <<>>, IF word = <<>> THEN words ELSE Append(words, word))

TitleWords(title) == WordsFrom(Lower(title), <<>>, <<>>)

\* The items the intra-source step makes of the raw entries at the indices ix.
IntraItems(raws, ix) ==
    [k \in 1..Len(ix) |->
        MakeItem(SrcTwo, raws[ix[k]].title, raws[ix[k]].url, raws[ix[k]].pub_dt,
                 <<>>, HarnessNow)]

\* C7 as stated: in dedupe and in the intra-source step of the listing strategy
\* an item is dropped only for an earlier item with the same canonical URL and
\* the same whitespace-normalized lowercased title.
C7_Original ==
    /\ agg.step = "deduped" =>
          agg.deduped = Pick(agg.items, FirstIndices(
              [i \in 1..Len(agg.items) |->
                  <<strip_utm(agg.items[i].url), Lower(norm_space(agg.items[i].title))>>]))
    /\ agg.step = "intra" =>
          agg.kept = IntraItems(agg.raws, FirstIndices(
              [i \in 1..Len(agg.raws) |->
                  <<agg.raws[i].url, Lower(norm_space(agg.raws[i].title))>>]))

\* C7 amended: in both steps an item is dropped exactly when an earlier item has
\* the same canonical URL and the same sequence of words (runs of a-z, 0-9) in
\* its lowercased title: punctuation and non-ASCII letters do not tell titles apart.
C7_DedupeKey ==
    /\ agg.step = "deduped" =>
          agg.deduped = Pick(agg.items, FirstIndices(
              [i \in 1..Len(agg.items) |->
                  <<strip_utm(agg.items[i].url), TitleWords(agg.items[i].title)>>]))
    /\ agg.step = "intra" =>
          agg.kept = IntraItems(agg.raws, FirstIndices(
              [i \in 1..Len(agg.raws) |->
                  <<agg.raws[i].url, TitleWords(agg.raws[i].title)>>]))

\* Two items at one URL whose titles differ in punctuation only, and two whose
\* titles hold no ASCII letter or digit at all: one of each pair is kept.
C7_Witness ==
    \/ /\ agg.step = "deduped"
       /\ agg.items = <<ItemOf(Raw(SrcOne, <<"a">>, U1, None)),
                        ItemOf(Raw(SrcTwo, <<"a", "!">>, U1, None))>>
       /\ Len(agg.deduped) = 1
    \/ /\ agg.step = "intra"
       /\ agg.raws = <<Raw(SrcOne, <<"e_acute">>, U2, None), Raw(SrcTwo, <<"!">>, U2, None)>>
       /\ Len(agg.kept) = 1

\* C8: the aggregator is idempotent: sort_items(dedupe(.)) of its own output is
\* that output, and dedupe of a deduplicated list is that list.
C8_AggregatorIdempotent ==
    agg.step = "again" =>
        /\ agg.outAgain = agg.out
        /\ agg.dedupedAgain = agg.deduped

\* A list the first pass both shortens and reorders.
C8_Witness ==
    /\ agg.step = "again"
    /\ agg.items = <<ItemOf(Raw(SrcOne, <<"a">>, U1, None)),
                     ItemOf(Raw(SrcTwo, <<"b">>, U2, Today)),
                     ItemOf(Raw(SrcTwo, <<"A">>, U1, None))>>
    /\ agg.out = <<ItemOf(Raw(SrcTwo, <<"b">>, U2, Today)),
                   ItemOf(Raw(SrcOne, <<"a">>, U1, None))>>

\* C10 as stated: sort_items gives the same sequence for every permutation of
\* its input.
C10_Original ==
    agg.step = "sorted" => agg.sortedPermuted = agg.sorted

\* x may stand before y: higher score, or equal score and the smaller
\* (published-or-empty, lowercased title).
InOrder(x, y) ==
    \/ x.score > y.score
    \/ /\ x.score = y.score
       /\ \/ LexLess(PublishedOrEmpty(x), PublishedOrEmpty(y))
          \/ /\ PublishedOrEmpty(x) = PublishedOrEmpty(y)
             /\ ~LexLess(Codes(Lower(y.title)), Codes(Lower(x.title)))

\* C10 amended: the output is a rearrangement of the input, ascending in the
\* key; items with equal keys keep their input order; so the outputs for a list
\* and for a permutation of it carry the same keys in the same order, and are
\* the same sequence when items with equal keys are equal items.
C10_SortOrder ==
    agg.step = "sorted" =>
        LET n == Len(agg.items)
            keysOf(L) == [i \in 1..Len(L) |-> SortKey(L[i])]
            sameKey(L, k) == SelectSeq(L, LAMBDA it : SortKey(it) = k)
        IN  /\ Len(agg.sorted) = n
            /\ \A i \in 1..(n - 1) : InOrder(agg.sorted[i], agg.sorted[i + 1])
            /\ \A i \in 1..n :
                  sameKey(agg.sorted, SortKey(agg.items[i])) =
                      sameKey(agg.items, SortKey(agg.items[i]))
            /\ keysOf(agg.sortedPermuted) = keysOf(agg.sorted)
            /\ (\A i, j \in 1..n :
                   SortKey(agg.items[i]) = SortKey(agg.items[j]) => agg.items[i] = agg.items[j])
               => agg.sortedPermuted = agg.sorted

\* Three items of equal score given in descending key order: no publish time
\* sorts before a publish time, an earlier time before a later one.
C10_Witness ==
    /\ agg.step = "sorted"
    /\ agg.items = <<ItemOf(Raw(SrcTwo, <<"b">>, U2, Today)),
                     ItemOf(Raw(SrcTwo, <<"b">>, U2, Yesterday)),
                     ItemOf(Raw(SrcOne, <<"a">>, U1, Today))>>
    /\ agg.permuted # agg.items
    /\ agg.sorted = <<ItemOf(Raw(SrcTwo, <<"b">>, U2, Yesterday)),
                      ItemOf(Raw(SrcOne, <<"a">>, U1, Today)),
                      ItemOf(Raw(SrcTwo, <<"b">>, U2, Today))>>

\* --------------------------------------- write_daily_brief harness (SpecDigest)

MaxDigestItems == 3     \* longest item list given to write_daily_brief

\* A source whose registry entry names no geo.
SrcNoGeo == SourceCfg("S8", "Eight", <<"http://h1", "/", "feed">>, <<>>,
                      "rss", "", "L1", 0, "none", <<>>)

\* Items of four of the five geo buckets and of two geos outside them, with
\* equal and different scores, with and without a publish time.
DigestEntries ==
    { Raw(SrcOne, <<"a">>, U1, Today),
      Raw(SrcOne, <<"b">>, U2, None),
      Raw(SrcOne, <<"a">>, U2, Yesterday),
      Raw(SrcTwo, <<"a">>, U1, None),
      Raw(SrcNoFeed, <<"b">>, U1, Today),
      Raw(SrcApi, <<"a">>, U1, None),
      Raw(SrcNeg, <<"a">>, U1, None),
      Raw(SrcNoGeo, <<"b">>, U2, None) }

DigestLists == SeqsUpTo(DigestEntries, MaxDigestItems)

InitDigest ==
    /\ RunIdle /\ BuildIdle
    /\ canon = [step |-> "idle"] /\ scoring = [step |-> "idle"] /\ agg = [step |-> "idle"]
    /\ pick = [step |-> "idle"] /\ guess = [step |-> "idle"] /\ strat = [step |-> "idle"]
    /\ \E raws \in DigestLists :
          digest = [step |-> "given", items |-> [i \in 1..Len(raws) |-> ItemOf(raws[i])]]

\* write_daily_brief(items, out_path)
DigestWrite ==
    /\ digest.step = "given"
    /\ \E at \in NowTimes :
          digest' = [step |-> "written", items |-> digest.items,
                     lines |-> write_daily_brief(digest.items, at)]
    /\ UNCHANGED <<runVars, canon, scoring, agg, pick, guess, strat, build>>

NextDigest == DigestWrite

SpecDigest == InitDigest /\ [][NextDigest]_vars

\* The indices of the section headings among the lines, ascending.
SectionIndices(lines) ==
    SelectSeq([i \in 1..Len(lines) |-> i], LAMBDA i : lines[i].line = "section")

\* The six buckets in the order of the digest, and what puts an item in one.
Buckets == <<"BA", "BSK", "SR", "SUSEDIA", "EU_GLOBAL", "other">>

InBucket(it, b) ==
    IF b = "other" THEN it.geo \notin {"BA", "BSK", "SR", "SUSEDIA", "EU_GLOBAL"}
    ELSE it.geo = b

Heading(b) == IF b = "other" THEN "Ostatne" ELSE geo_title(b)

\* The sort key read off the lines of a rendered item that starts at line h.
RenderedKey(lines, h) ==
    <<0 - lines[h + 2].score, lines[h].when, Codes(Lower(lines[h].title))>>

\* C12: for a non-empty item list the digest has one section per non-empty geo
\* bucket and none for an empty one, in the order BA, BSK, SR, SUSEDIA,
\* EU_GLOBAL, then "other" for every item of another geo; each item is rendered
\* exactly once, in the section of its geo, and within a section the items
\* ascend in (-score, published-or-empty, lowercased title).  For an empty list
\* the digest is the title line, the generation line and the empty-state
\* message, without a section.
C12_DigestSections ==
    digest.step = "written" =>
        LET lines == digest.lines
            items == digest.items
            heads == SectionIndices(lines)
            full == SelectSeq(Buckets, LAMBDA b : \E i \in 1..Len(items) : InBucket(items[i], b))
            first(k) == heads[k] + 2
            last(k) == IF k < Len(heads) THEN heads[k + 1] - 1 ELSE Len(lines)
            count(k) == (last(k) - first(k) + 1) \div 5
            block(k, j) == SubSeq(lines, first(k) + 5 * (j - 1), first(k) + 5 * j - 1)
        IN  /\ Len(lines) >= 4
            /\ lines[1].line = "title" /\ lines[2].line = "blank"
            /\ lines[3].line = "generated" /\ lines[4].line = "blank"
            /\ items = <<>> =>
                  /\ Len(lines) = 5 /\ lines[5].line = "empty"
                  /\ heads = <<>>
            /\ items # <<>> =>
                  /\ \A i \in 1..Len(lines) : lines[i].line # "empty"
                  /\ Len(heads) = Len(full)
                  /\ Len(heads) > 0 /\ heads[1] = 5
                  /\ \A k \in 1..Len(heads) :
                        /\ lines[heads[k]].title = Heading(full[k])
                        /\ lines[heads[k] + 1].line = "blank"
                        /\ last(k) - first(k) + 1 = 5 * count(k)
                        /\ count(k) = Cardinality({i \in 1..Len(items) : InBucket(items[i], full[k])})
                        /\ \A i \in 1..Len(items) :
                              InBucket(items[i], full[k]) =>
                                 Cardinality({j \in 1..count(k) : block(k, j) = ItemLines(items[i])})
                                 = Cardinality({n \in 1..Len(items) :
                                                  /\ InBucket(items[n], full[k])
                                                  /\ ItemLines(items[n]) = ItemLines(items[i])})
                        /\ \A j \in 1..(count(k) - 1) :
                              ~KeyLess(RenderedKey(lines, first(k) + 5 * j),
                                       RenderedKey(lines, first(k) + 5 * (j - 1)))

\* Three items given against the order of the digest: one of an unknown geo,
\* then two of BA with the lower score first.  The digest has the sections
\* Bratislava and Ostatne, the higher BA score first.
C12_Witness ==
    /\ digest.step = "written"
    /\ digest.items = <<ItemOf(Raw(SrcNeg, <<"a">>, U1, None)),
                         ItemOf(Raw(SrcOne, <<"b">>, U2, None)),
                         ItemOf(Raw(SrcOne, <<"a">>, U1, Today))>>
    /\ Len(SectionIndices(digest.lines)) = 2
    /\ digest.lines[5] = [line |-> "section", title |-> "Bratislava"]
    /\ SubSeq(digest.lines, 7, 11) = ItemLines(ItemOf(Raw(SrcOne, <<"a">>, U1, Today)))
    /\ digest.lines[17] = [line |-> "section", title |-> "Ostatne"]

\* -------------------------------------------- pick_sources harness (SpecPick)

MaxEntries == 2     \* most entries of a registry given to pick_sources

\* A registry entry with the given id, enabled flag and scoring.boost.
PickEntry(id, flag, boost) ==
    [source_id |-> id, name |-> JStr(<<"One">>), enabled |-> flag,
     feed |-> JStr(<<"http://h1", "/", "feed">>), home |-> Missing,
     method |-> JStr(<<"rss">>), geo |-> JStr(<<"BA">>), brief |-> None,
     boost |-> boost, impact_bias |-> Missing, tags_default |-> None]

\* Ids: plain, padded with a blank, absent.
PickIds == {JStr(<<"S1">>), JStr(<<" ", "S2">>), Missing}

\* The enabled flag: absent, true, false, null, 0.
PickFlags == {Missing, JBool(TRUE), JBool(FALSE), None, JInt(0)}

\* scoring.boost: absent, null, an integer, strings int() reads (" 12", "-2",
\* "1_0"), strings it rejects ("x", "-", "1 2", "1__0"), a list.
PickBoosts ==
    {Missing, None, JInt(3), JStr(<<" ", "1", "2">>), JStr(<<"-", "2">>),
     JStr(<<"1", "_", "0">>),
     JStr(<<"x">>), JStr(<<"-">>), JStr(<<"1", " ", "2">>),
     JStr(<<"1", "_", "_", "0">>), JList(<<>>)}

PickEntries ==
    {PickEntry(id, flag, JInt(3)) : id \in PickIds, flag \in PickFlags}
    \cup {PickEntry(JStr(<<"S1">>), Missing, b) : b \in PickBoosts}

\* The allow-list: none, empty, one id, ids in another order than the registry
\* with an id no entry has and a padded id, the empty id.
PickLists ==
    { None, JList(<<>>), JList(<< <<"S1">> >>),
      JList(<< <<"S9">>, <<"S2">>, <<"S1", " ">> >>), JList(<< <<>> >>) }

InitPick ==
    /\ RunIdle /\ BuildIdle
    /\ canon = [step |-> "idle"] /\ scoring = [step |-> "idle"] /\ agg = [step |-> "idle"]
    /\ digest = [step |-> "idle"] /\ guess = [step |-> "idle"] /\ strat = [step |-> "idle"]
    /\ \E es \in SeqsUpTo(PickEntries, MaxEntries), source_ids \in PickLists :
          pick = [step |-> "given", reg |-> [sources |-> es], source_ids |-> source_ids]

\* pick_sources(reg, source_ids)
PickCall ==
    /\ pick.step = "given"
    /\ pick' = [step |-> "picked", reg |-> pick.reg, source_ids |-> pick.source_ids,
                out |-> pick_sources(pick.reg, pick.source_ids)]
    /\ UNCHANGED <<runVars, canon, scoring, agg, digest, guess, strat, build>>

NextPick == PickCall

SpecPick == InitPick /\ [][NextPick]_vars

\* The id of a registry entry as text, without surrounding blanks.
EntryId(e) == IF e.source_id = Missing THEN <<>> ELSE Strip(e.source_id.str)

\* C15: pick_sources returns, in registry order, exactly one SourceCfg for each
\* entry that is enabled and, when an allow-list is given, whose source_id is in
\* the allow-list (ids compared without surrounding blanks; an allow-list that
\* is None or empty counts as not given); disabled entries and allow-list ids
\* no entry has give no SourceCfg; an entry without the enabled flag counts as
\* enabled; a boost that is absent or cannot be converted to an integer gives
\* boost 0, one that can gives that integer.
C15_PickSources ==
    pick.step = "picked" =>
        LET es == pick.reg.sources
            sl == pick.source_ids
            out == pick.out
            given == sl # None /\ sl.list # <<>>
            enabled(e) == e.enabled \notin {JBool(FALSE), None, JInt(0)}
            listed(e) == \E j \in 1..Len(sl.list) : Strip(sl.list[j]) = EntryId(e)
            selected(i) == enabled(es[i]) /\ (given => listed(es[i]))
            chosen == SelectSeq([i \in 1..Len(es) |-> i], selected)
        IN  /\ Len(out) = Len(chosen)
            /\ \A k \in 1..Len(chosen) :
                  LET e == es[chosen[k]]
                  IN  /\ out[k].source_id = WordOf(EntryId(e))
                      /\ out[k].fetch_method = "rss"
                      /\ out[k].urls_feed = e.feed.str
                      /\ e.boost \in {Missing, None, JStr(<<"x">>), JStr(<<"-">>),
                                       JStr(<<"1", " ", "2">>),
                                       JStr(<<"1", "_", "_", "0">>), JList(<<>>)}
                            => out[k].boost = 0
                      /\ e.boost = JStr(<<"1", "_", "0">>) => out[k].boost = 10
                      /\ e.boost = JInt(3) => out[k].boost = 3
                      /\ e.boost = JStr(<<" ", "1", "2">>) => out[k].boost = 12
                      /\ e.boost = JStr(<<"-", "2">>) => out[k].boost = -2

\* A disabled entry S2 and an entry S1 without the flag whose boost is "x",
\* picked with an allow-list naming S9, S2 and S1: the one SourceCfg is that of
\* S1, with boost 0.
C15_Witness ==
    /\ pick.step = "picked"
    /\ pick.reg.sources = << PickEntry(JStr(<<" ", "S2">>), JBool(FALSE), JInt(3)),
                             PickEntry(JStr(<<"S1">>), Missing, JStr(<<"x">>)) >>
    /\ pick.source_ids = JList(<< <<"S9">>, <<"S2">>, <<"S1", " ">> >>)
    /\ Len(pick.out) = 1
    /\ pick.out[1].source_id = "S1"
    /\ pick.out[1].boost = 0

\* ------------------------------------ guess_date_from_text harness (SpecDate)

MaxChunks == 2      \* most pieces of a context text

\* Pieces of a context: D.M.YYYY texts that are dates day-first, dates only
\* month-first, dates only year-first (a first number above 31 before a small
\* four-digit number), the first day of the year 1, or no dates; YYYY-MM-DD
\* texts that are dates (one of them the first day of the year 1) or not; a
\* letter and a digit.
DateChunks ==
    { <<"1", ".", "2", ".", "2", "0", "2", "6">>,
      <<"2", ".", "1", "3", ".", "2", "0", "2", "6">>,
      <<"1", "3", ".", "2", ".", "2", "0", "2", "6">>,
      <<"3", "1", ".", "2", ".", "2", "0", "2", "6">>,
      <<"2", "9", ".", "2", ".", "2", "0", "2", "4">>,
      <<"3", "2", ".", "1", ".", "0", "0", "0", "5">>,
      <<"3", "2", ".", "1", ".", "0", "0", "3", "1">>,
      <<"3", "2", ".", "1", ".", "2", "0", "2", "6">>,
      <<"1", ".", "1", ".", "0", "0", "0", "1">>,
      <<"2", "0", "2", "6", "-", "0", "2", "-", "0", "1">>,
      <<"2", "0", "2", "6", "-", "0", "2", "-", "3", "0">>,
      <<"0", "0", "0", "1", "-", "0", "1", "-", "0", "1">>,
      <<"a">>,
      <<"7">> }

\* What stands between two pieces: a blank, nothing.
DateSeps == {<<" ">>, <<>>}

\* The contexts of k pieces.
RECURSIVE DateTextsOf(_)
DateTextsOf(k) ==
    IF k = 0 THEN {<<>>}
    ELSE IF k = 1 THEN DateChunks
    ELSE {t \o sep \o c : t \in DateTextsOf(k - 1), sep \in DateSeps, c \in DateChunks}

\* The local zones of the process: UTC, one with daylight saving time, one
\* east and one west of UTC without.
LocalZones == {ZoneUTC, ZoneLondon, ZoneTokyo, ZoneBogota}

\* A page of one link to /a with a text of twelve characters, inside a parent
\* element with the given text.
DatePage(parent) == [ok |-> TRUE, body |-> [links |-> <<Link(<<"/", "a">>, LongText, parent)>>]]

\* The context fetch_html_list builds for that link.
DateContext(parent) == norm_space(safe_text(LongText) \o <<" ">> \o safe_text(parent))

InitDate ==
    /\ RunIdle /\ BuildIdle
    /\ canon = [step |-> "idle"] /\ scoring = [step |-> "idle"] /\ agg = [step |-> "idle"]
    /\ digest = [step |-> "idle"] /\ pick = [step |-> "idle"] /\ strat = [step |-> "idle"]
    /\ \E k \in 0..MaxChunks : \E parent \in DateTextsOf(k) :
       \E zone \in LocalZones :
          guess = [step |-> "given", parent |-> parent, tz |-> zone]

\* guess_date_from_text on the context, and the fetch_html_list that uses it.
GuessCall ==
    /\ guess.step = "given"
    /\ guess' = [step |-> "found", parent |-> guess.parent, tz |-> guess.tz,
                 result |-> guess_date_from_text(DateContext(guess.parent), guess.tz),
                 returned |-> fetch_html_list(SrcTwo, 1, HarnessNow, DatePage(guess.parent),
                                              guess.tz)]
    /\ UNCHANGED <<runVars, canon, scoring, agg, digest, pick, strat, build>>

NextDate == GuessCall

SpecDate == InitDate /\ [][NextDate]_vars

\* The positions of a context where the day-first pattern matches, and where
\* the year-first pattern matches.
DayFirstPositions(t) == {p \in 1..Len(t) : DayFirstMatch(t, p).ok}
IsoPositions(t) == {p \in 1..Len(t) : IsoMatch(t, p).ok}

\* The least of a non-empty set of positions.
Leftmost(ps) == CHOOSE p \in ps : \A q \in ps : p <= q

\* The published field of the one item the page gives.
PublishedOf(returned) == returned.items[1].published

\* C18 as stated: the date of the first pattern that yields a valid calendar
\* date is returned.  A context holding a D.M.YYYY text that is a date read as
\* day, month, year gives such a date; else one holding a YYYY-MM-DD text that
\* is a date gives such a date; else the result is absent and published is null.
\* Violated: only the leftmost match of a pattern is tried, and a D.M.YYYY match
\* that is no date day-first is read month-first.
C18_FirstValidPatternWins ==
    guess.step = "found" =>
        LET t == DateContext(guess.parent)
            dayFirst == {Midnight(m.g3, m.g2, m.g1) :
                            m \in {n \in {DayFirstMatch(t, p) : p \in DayFirstPositions(t)} :
                                     ValidDate(n.g3, n.g2, n.g1)}}
            yearFirst == {Midnight(m.g1, m.g2, m.g3) :
                            m \in {n \in {IsoMatch(t, p) : p \in IsoPositions(t)} :
                                     ValidDate(n.g1, n.g2, n.g3)}}
        IN  /\ dayFirst # {} => guess.result \in dayFirst
            /\ (dayFirst = {} /\ yearFirst # {}) => guess.result \in yearFirst
            /\ (dayFirst = {} /\ yearFirst = {}) =>
                  guess.result = None /\ PublishedOf(guess.returned) = None

\* C18, amended: each pattern is tried on its leftmost match only, D.M.YYYY
\* before YYYY-MM-DD.  The leftmost D.M.YYYY match is read as day, month, year,
\* or as month, day, year when its second number is above 12 and its first is
\* not, or, when its first number is above 31, as year, day, month if the
\* four-digit number is at most 12 and as year, month, day if not; if that is a
\* calendar date that converts to local time (every date does, but 0001-01-01
\* in a local zone east of UTC or with daylight saving time) it is returned,
\* wherever a YYYY-MM-DD text stands.  If it is not, or nothing
\* matches D.M.YYYY, the leftmost YYYY-MM-DD match is returned if it is such a
\* date.  Otherwise the result is absent and published is null.
C18_LeftmostMatchPerPattern ==
    guess.step = "found" =>
        LET t == DateContext(guess.parent)
            Converts(y, m, d) ==
                <<y, m, d>> # <<1, 1, 1>> \/ (~guess.tz.hasdst /\ guess.tz.std_offset <= 0)
            Date(y, m, d) == IF ValidDate(y, m, d) /\ Converts(y, m, d)
                             THEN Midnight(y, m, d) ELSE None
            m1 == DayFirstMatch(t, Leftmost(DayFirstPositions(t)))
            yearFirst == m1.g1 > 31
            monthFirst == m1.g2 > 12 /\ m1.g1 <= 12
            ymd == IF yearFirst /\ m1.g3 <= 12 THEN <<m1.g1, m1.g3, m1.g2>>
                   ELSE IF yearFirst THEN <<m1.g1, m1.g2, m1.g3>>
                   ELSE IF monthFirst THEN <<m1.g3, m1.g1, m1.g2>>
                   ELSE <<m1.g3, m1.g2, m1.g1>>
            r1 == IF DayFirstPositions(t) = {} THEN None
                  ELSE Date(ymd[1], ymd[2], ymd[3])
            m2 == IsoMatch(t, Leftmost(IsoPositions(t)))
            r2 == IF IsoPositions(t) = {} THEN None
                  ELSE Date(m2.g1, m2.g2, m2.g3)
            expected == IF r1 # None THEN r1 ELSE r2
        IN  /\ guess.result = expected
            /\ Len(guess.returned.items) = 1
            /\ PublishedOf(guess.returned) =
                  IF expected = None THEN None ELSE IsoFormat(expected)

\* The context "2.13.2026 2026-02-01": the D.M.YYYY match is no date day-first,
\* it is returned as the 13th of February, not the YYYY-MM-DD date.
C18_Witness ==
    /\ guess.step = "found"
    /\ guess.parent = <<"2", ".", "1", "3", ".", "2", "0", "2", "6", " ",
                        "2", "0", "2", "6", "-", "0", "2", "-", "0", "1">>
    /\ guess.result = Midnight(2026, 2, 13)
    /\ guess.result = DateTime(11, 0)
    /\ PublishedOf(guess.returned) = IsoFormat(DateTime(11, 0))

\* ------------------------------------------ fetch_html_list harness (SpecHtml)

MaxLinks == 3       \* most links of a page given to fetch_html_list

\* html_list sources: one with the SR_ZJAZD allow-list rule, one without a rule
\* whose home page is a document, not a directory.
SrcPlain == SourceCfg("S7", "Seven", <<>>, <<"http://h2", "/", "c">>,
                      "html_list", "BSK", "L1", 1, "none", <<"t1">>)

HtmlSources == {SrcTwo, SrcPlain}

\* A date of a context that scores like no date: long ago.
FarPastText == <<"2", "9", ".", "2", ".", "2", "0", "2", "4">>

\* Links that pass every test, with and without a date and with equal and
\* different titles and targets; the home page itself, which the SR_ZJAZD rule
\* rejects; a target urljoin rejects; a target "//a" on another host; a target
\* that is a query only, which goes behind the path of the home page.
HtmlLinks ==
    { Link(<<"/", "a">>, LongText, NoDate),
      Link(<<"/", "b">>, LongText, TodayText),
      Link(<<"/", "a", "?", "gclid", "=", "a">>, LongText, YesterdayText),
      Link(<<"/", "b">>, LongText \o <<"!">>, FarPastText),
      Link(<<"/">>, LongText, NoDate),
      Link(<<"/", "/", "a">>, LongText, NoDate),
      Link(<<"?", "a", "=", "b">>, LongText, NoDate),
      Link(<<"http://[">>, LongText, NoDate) }

\* The pages: up to MaxLinks different links in any order (two links that
\* give the same candidate are among them: the targets "/a" and
\* "/a?gclid=a" with the same text).
HtmlPages ==
    {[links |-> ls] :
        ls \in {l \in SeqsUpTo(HtmlLinks, MaxLinks) :
                  \A i, j \in 1..Len(l) : i # j => l[i] # l[j]}}

InitHtml ==
    /\ RunIdle /\ BuildIdle
    /\ canon = [step |-> "idle"] /\ scoring = [step |-> "idle"] /\ agg = [step |-> "idle"]
    /\ digest = [step |-> "idle"] /\ pick = [step |-> "idle"] /\ guess = [step |-> "idle"]
    /\ \E src \in HtmlSources, lim \in Limits, resp \in Responses(HtmlPages) :
          strat = [step |-> "given", src |-> src, limit |-> lim, resp |-> resp]

\* The deduplicated, scored candidates of a page, in document order.
ScoredCandidates(src, page) ==
    HtmlItemsLoop(src, HtmlCandidates(src, page.links, 1, HomeZone), 1, {}, <<>>, HarnessNow)

\* fetch_html_list(src, limit, now); scored keeps the items list as it stands
\* before the sort and the cut, when the loops reach that point.
HtmlCall ==
    /\ strat.step = "given"
    /\ LET result == fetch_html_list(strat.src, strat.limit, HarnessNow, strat.resp, HomeZone)
       IN  strat' = [step |-> "returned", src |-> strat.src, limit |-> strat.limit,
                     resp |-> strat.resp,
                     result |-> result,
                     scored |-> IF strat.resp.ok /\ ~result.raised
                                THEN ScoredCandidates(strat.src, strat.resp.body)
                                ELSE <<>>]
    /\ UNCHANGED <<runVars, canon, scoring, agg, digest, pick, guess, build>>

NextHtml == HtmlCall

SpecHtml == InitHtml /\ [][NextHtml]_vars

\* How often x stands in the sequence seq.
Count(seq, x) == Cardinality({i \in 1..Len(seq) : seq[i] = x})

\* x stands strictly before y in the order (-score, published-or-empty,
\* lowercased title): a higher score first, then no date before a date and an
\* earlier date before a later, then the lesser title.
Precedes(x, y) ==
    \/ x.score > y.score
    \/ /\ x.score = y.score
       /\ \/ LexLess(PublishedOrEmpty(x), PublishedOrEmpty(y))
          \/ /\ PublishedOrEmpty(x) = PublishedOrEmpty(y)
             /\ LexLess(Codes(Lower(x.title)), Codes(Lower(y.title)))

\* C16: for a limit >= 0 fetch_html_list returns min(limit, number of
\* candidates) of the deduplicated, scored candidates, in ascending order of
\* (-score, published-or-empty, lowercased title), and no candidate left out
\* stands strictly before a returned one in that order.
C16_TopLimit ==
    (strat.step = "returned" /\ strat.resp.ok /\ ~strat.result.raised /\ strat.limit >= 0) =>
        LET all == strat.scored
            got == strat.result.items
        IN  /\ Len(got) = (IF strat.limit < Len(all) THEN strat.limit ELSE Len(all))
            /\ \A i \in 1..Len(got) : Count(got, got[i]) <= Count(all, got[i])
            /\ \A i \in 1..(Len(got) - 1) : ~Precedes(got[i + 1], got[i])
            /\ \A i \in 1..Len(all), j \in 1..Len(got) :
                  Count(all, all[i]) > Count(got, all[i]) => ~Precedes(all[i], got[j])

\* Limit 1 and a page of a link dated long ago followed by a link without a
\* date, both of the same score: the one without a date is returned, the dated
\* one is left out.
C16_Witness ==
    /\ strat.step = "returned" /\ strat.src = SrcPlain /\ strat.limit = 1
    /\ strat.resp.ok
    /\ strat.resp.body.links = << Link(<<"/", "b">>, LongText \o <<"!">>, FarPastText),
                                  Link(<<"/", "a">>, LongText, NoDate) >>
    /\ Len(strat.scored) = 2
    /\ strat.scored[1].score = strat.scored[2].score
    /\ strat.scored[1].published # None
    /\ Len(strat.result.items) = 1
    /\ strat.result.items[1].published = None
    /\ strat.result.items[1].url = <<"http://h2", "/", "a">>

\* The link passes the tests of the claim for an html_list source: a target that
\* is no pseudo-URL, a visible text of twelve characters or more, and a resolved
\* URL on the host of the home page that the allow-list of the source admits.
LinkPasses(src, link) ==
    LET href == safe_text(link.href)
    IN  /\ href # <<>> /\ ~BadHref(href)
        /\ Len(norm_space(link.text)) >= 12
        /\ ~UrlJoinRaises(src.urls_home, href)
        /\ is_same_domain(strip_utm(UrlJoin(src.urls_home, href)), src.urls_home)
        /\ allowlist_filter(src, strip_utm(UrlJoin(src.urls_home, href)))

\* C17: every item a strategy returns has a non-empty normalized title and a
\* non-empty canonical URL, and every item of fetch_html_list comes from a link
\* that passes the tests above; links that fail them are dropped without a
\* warning (the only warning of a fetched page is the one for an empty
\* extraction).  Violated: a link whose target urljoin rejects is not dropped,
\* its exception leaves fetch_html_list.
C17_ItemInvariants ==
    (strat.step = "returned" /\ strat.resp.ok) =>
        LET src == strat.src
            links == strat.resp.body.links
            got == strat.result.items
        IN  /\ ~strat.result.raised
            /\ \A i \in 1..Len(got) :
                  /\ got[i].title # <<>> /\ norm_space(got[i].title) = got[i].title
                  /\ got[i].url # <<>> /\ strip_utm(got[i].url) = got[i].url
                  /\ \E k \in 1..Len(links) :
                        /\ LinkPasses(src, links[k])
                        /\ got[i].title = norm_space(links[k].text)
                        /\ got[i].url = strip_utm(UrlJoin(src.urls_home, safe_text(links[k].href)))
            /\ \A w \in 1..Len(strat.result.warns) :
                  /\ got = <<>>
                  /\ strat.result.warns[w] = Warn(src, "html_list extracted 0 items")

\* ------------------------------------------------ fetch_rss harness (SpecRss)

MaxFeedEntries == 3     \* most entries of a feed given to fetch_rss

\* Entries with a title and a link, with a blank title, with a link that
\* canonicalizes to nothing, with no link.
RssEntries ==
    { Entry(<<"a", " ", " ", "b">>, U1 \o <<"?", "utm_", "a", "=", "a">>, Today),
      Entry(<<" ">>, U2, Today),
      Entry(<<"b">>, U2, WeekAgo),
      Entry(<<"a">>, <<"?">>, Yesterday),
      Entry(<<"A">>, <<" ">> \o U1, None),
      Entry(<<"b">>, <<>>, None) }

RssFeeds == {[bozo |-> b, entries |-> es] :
                b \in BOOLEAN, es \in SeqsUpTo(RssEntries, MaxFeedEntries)}

InitRss ==
    /\ RunIdle /\ BuildIdle
    /\ canon = [step |-> "idle"] /\ scoring = [step |-> "idle"] /\ agg = [step |-> "idle"]
    /\ digest = [step |-> "idle"] /\ pick = [step |-> "idle"] /\ guess = [step |-> "idle"]
    /\ \E src \in {SrcOne, SrcNeg}, lim \in Limits, resp \in Responses(RssFeeds) :
          strat = [step |-> "given", src |-> src, limit |-> lim, resp |-> resp]

\* fetch_rss(src, limit, now)
RssCall ==
    /\ strat.step = "given"
    /\ strat' = [step |-> "returned", src |-> strat.src, limit |-> strat.limit,
                 resp |-> strat.resp,
                 result |-> fetch_rss(strat.src, strat.limit, HarnessNow, strat.resp)]
    /\ UNCHANGED <<runVars, canon, scoring, agg, digest, pick, guess, build>>

NextRss == RssCall

SpecRss == InitRss /\ [][NextRss]_vars

\* Title and link of an entry after normalization.
EntryTitle(e) == norm_space(safe_text(e.title))
EntryLink(e) == strip_utm(safe_text(e.link))

\* C19: for a limit >= 0 and a fetched feed, fetch_rss looks at the first limit
\* entries only, in feed order: the items are those of the entries among them
\* whose normalized title and link are both non-empty, in the order of their
\* entries; a skipped entry counts against the limit; the warnings are one
\* warning when the parser reports a malformed document and none otherwise.
C19_FirstLimitEntries ==
    (strat.step = "returned" /\ strat.resp.ok /\ strat.limit >= 0) =>
        LET es == strat.resp.body.entries
            n == IF strat.limit < Len(es) THEN strat.limit ELSE Len(es)
            kept == SelectSeq([i \in 1..n |-> i],
                              LAMBDA i : EntryTitle(es[i]) # <<>> /\ EntryLink(es[i]) # <<>>)
            got == strat.result.items
        IN  /\ ~strat.result.raised
            /\ Len(got) = Len(kept)
            /\ Len(got) <= strat.limit
            /\ \A k \in 1..Len(kept) :
                  /\ got[k].title = EntryTitle(es[kept[k]])
                  /\ got[k].url = EntryLink(es[kept[k]])
                  /\ got[k].published =
                        IF es[kept[k]].pub_dt = None THEN None ELSE IsoFormat(es[kept[k]].pub_dt)
            /\ strat.result.warns =
                  IF strat.resp.body.bozo THEN <<Warn(strat.src, "RSS parse bozo")>> ELSE <<>>

\* Limit 2 and a malformed feed of three entries, the first with a blank title:
\* the one item is that of the second entry, the third is not looked at, and
\* there is exactly the one warning.
C19_Witness ==
    /\ strat.step = "returned" /\ strat.src = SrcOne /\ strat.limit = 2
    /\ strat.resp.ok /\ strat.resp.body.bozo
    /\ strat.resp.body.entries =
          << Entry(<<" ">>, U2, Today),
             Entry(<<"b">>, U2, WeekAgo),
             Entry(<<"a", " ", " ", "b">>, U1 \o <<"?", "utm_", "a", "=", "a">>, Today) >>
    /\ Len(strat.result.items) = 1
    /\ strat.result.items[1].title = <<"b">>
    /\ strat.result.warns = <<Warn(SrcOne, "RSS parse bozo")>>

\* ------------------------------------------- time_score harness (SpecScore)

InitScore ==
    /\ RunIdle /\ BuildIdle
    /\ canon = [step |-> "idle"]
    /\ agg = [step |-> "idle"]
    /\ digest = [step |-> "idle"] /\ pick = [step |-> "idle"] /\ guess = [step |-> "idle"] /\ strat = [step |-> "idle"]
    /\ \E p \in PubTimes, n \in NowTimes :
          scoring = [step |-> "given", pub |-> p, now |-> n]

ScoreTime ==
    /\ scoring.step = "given"
    /\ scoring' = [step |-> "scored", pub |-> scoring.pub, now |-> scoring.now,
                   score |-> time_score(scoring.pub, scoring.now)]
    /\ UNCHANGED <<runVars, canon, agg, digest, pick, guess, strat, build>>

NextScore == ScoreTime

SpecScore == InitScore /\ [][NextScore]_vars

\* The publish date minus today's date, in calendar days.
DayOffset == to_date(scoring.pub) - to_date(scoring.now)

\* C2 as stated: 0 for a missing date, 2 for today +-1, 1 for the days
\* today-6 .. today-2, and 0 for every other date (today-7 and earlier, today+2
\* and later).
C2_Original ==
    scoring.step = "scored" =>
        scoring.score =
            IF scoring.pub = None THEN 0
            ELSE IF DayOffset \in {-1, 0, 1} THEN 2
            ELSE IF DayOffset \in (-6)..(-2) THEN 1
            ELSE 0

\* C2 amended: 0 for a missing date, 2 for today +-1, 1 for the days
\* today-7 .. today-2 (the eighth day back counts), and 0 for every other date
\* (today-8 and earlier, today+2 and later).
C2_TimeScore ==
    scoring.step = "scored" =>
        scoring.score =
            IF scoring.pub = None THEN 0
            ELSE IF DayOffset \in {-1, 0, 1} THEN 2
            ELSE IF DayOffset \in (-7)..(-2) THEN 1
            ELSE 0

\* The boundary day: a publish time late on day today-7, scored 1.
C2_Witness ==
    /\ scoring.step = "scored"
    /\ scoring.pub = DateTime(-7, 23)
    /\ scoring.now = DateTime(0, 0)
    /\ scoring.score = 1

\* ------------------------------------------- query strings for strip_utm

MaxParams == 3      \* most parameters of a query

\* Parameters of a query: tracking ones with a value, a tracking name without a
\* value, others with a value.
QueryParams ==
    { <<"utm_", "a", "=", "a">>,
      <<"gclid", "=", "a">>,
      <<"GCLID", "=", "b">>,
      <<"utm_", "a">>,
      <<"id", "=", "5">>,
      <<"q", "=", "a">> }

\* What follows the query: nothing, a fragment, a stray "&".
QueryEndings == {<<>>, <<"#", "f">>, <<"&">>}

\* The parameters joined by "&".
RECURSIVE JoinAmp(_)
JoinAmp(ps) ==
    IF ps = <<>> THEN <<>>
    ELSE IF Len(ps) = 1 THEN ps[1]
    ELSE ps[1] \o <<"&">> \o JoinAmp(Tail(ps))

QueryUrls ==
    {U1 \o e : e \in QueryEndings}
    \cup {U1 \o <<"?">> \o JoinAmp(ps) \o e :
              ps \in SeqsUpTo(QueryParams, MaxParams) \ {<<>>}, e \in QueryEndings}

\* ------------------------------------------------- strip_utm harness (SpecUrl)

\* The pieces of the URL strings: the separators the patterns name, a plain
\* character, tracking names in both cases, and the line feed (the one
\* character other than the end of the text in front of which $ matches).
UrlTokens == {"?", "&", "=", "#", "a", "utm_", "gclid", "GCLID", "\n"}
UrlStrings == SeqsUpTo(UrlTokens, MaxUrlLen)

\* Every string over the pieces up to the bound, and the URLs with up to
\* MaxParams parameters (several tracking ones, tracking mixed with others,
\* fragments, a trailing "&").
InitUrl ==
    /\ RunIdle /\ BuildIdle
    /\ scoring = [step |-> "idle"]
    /\ agg = [step |-> "idle"]
    /\ digest = [step |-> "idle"] /\ pick = [step |-> "idle"] /\ guess = [step |-> "idle"] /\ strat = [step |-> "idle"]
    /\ \E u \in UrlStrings \cup QueryUrls : canon = [step |-> "given", url |-> u]

CanonOnce ==
    /\ canon.step = "given"
    /\ canon' = [step |-> "once", url |-> canon.url, once |-> strip_utm(canon.url)]
    /\ UNCHANGED <<runVars, scoring, agg, digest, pick, guess, strat, build>>

CanonTwice ==
    /\ canon.step = "once"
    /\ canon' = [step |-> "twice", url |-> canon.url, once |-> canon.once,
                 twice |-> strip_utm(canon.once)]
    /\ UNCHANGED <<runVars, scoring, agg, digest, pick, guess, strat, build>>

NextUrl == CanonOnce \/ CanonTwice

SpecUrl == InitUrl /\ [][NextUrl]_vars

\* C9: canonicalization is idempotent: a second pass of strip_utm over its own
\* output changes nothing, for every URL string.
C9_StripUtmIdempotent ==
    canon.step = "twice" => canon.twice = canon.once

\* A text holds no line feed.
NoLineFeed(s) == \A i \in 1..Len(s) : s[i] # "\n"

\* Where the second pass still changes the text, the text given holds a line
\* feed: on every URL string without one, strip_utm is idempotent.
StripUtmIdempotentWithoutLineFeed ==
    (canon.step = "twice" /\ NoLineFeed(canon.url)) => canon.twice = canon.once

\* A second pass that removes more: "a?\n?" loses its last "?" in the first
\* pass, and the "?" that then stands in front of the final line feed in the
\* second.
StripUtmSecondPassChanges ==
    /\ canon.step = "twice"
    /\ canon.url = <<"a", "?", "\n", "?">>
    /\ canon.once = <<"a", "?", "\n">>
    /\ canon.twice = <<"a", "\n">>

\* Several tracking parameters mixed with another one: both passes agree.
StripUtmMixedParameters ==
    /\ canon.step = "twice"
    /\ canon.url = U1 \o <<"?", "id", "=", "5", "&", "gclid", "=", "a", "&", "utm_", "a", "=", "a">>
    /\ canon.once = U1 \o <<"?", "id", "=", "5">>
    /\ canon.twice = canon.once

\* ---------------------------------- strip_utm on query strings (SpecQuery)

InitQuery ==
    /\ RunIdle /\ BuildIdle
    /\ scoring = [step |-> "idle"]
    /\ agg = [step |-> "idle"]
    /\ digest = [step |-> "idle"] /\ pick = [step |-> "idle"] /\ guess = [step |-> "idle"] /\ strat = [step |-> "idle"]
    /\ \E u \in QueryUrls : canon = [step |-> "given", url |-> u]

SpecQuery == InitQuery /\ [][NextUrl]_vars

\* The query of a URL: what stands between its first "?" and its fragment.
QueryOf(url) ==
    LET h == FirstIndex(url, "#")
        front == IF h = 0 THEN url ELSE SubSeq(url, 1, h - 1)
        q == FirstIndex(front, "?")
    IN  IF q = 0 THEN <<>> ELSE SubSeq(front, q + 1, Len(front))

\* The parameters of a URL, in order.
ParamsOf(url) == SelectSeq(SplitOn(QueryOf(url), "&", <<>>), LAMBDA piece : piece # <<>>)

\* A parameter with a tracking name: utm_*, fbclid, gclid, mc_cid, mc_eid.
IsTracking(piece) == LowerTok(piece[1]) \in TrackingLiterals \cup {"utm_"}

\* C20: strip_utm removes only tracking parameters and trailing "?" and "&":
\* every other parameter of the query is in the query of the output with its
\* value, as often as in the input; the output still has a query, opened by
\* "?" right after the path, when such a parameter remains; a URL without
\* tracking parameters and without a trailing "?" or "&" comes back unchanged.
\* Violated: the match removes the "?" in front of a leading tracking parameter,
\* and a tracking name without "=" takes what follows up to the next "=".
C20_OnlyTrackingRemoved ==
    canon.step = "once" =>
        LET before == ParamsOf(canon.url)
            after == ParamsOf(canon.once)
            others == SelectSeq(before, LAMBDA piece : ~IsTracking(piece))
        IN  /\ \A i \in 1..Len(others) :
                  Cardinality({j \in 1..Len(after) : after[j] = others[i]})
                  >= Cardinality({j \in 1..Len(others) : others[j] = others[i]})
            /\ others # <<>> =>
                  /\ Len(canon.once) > Len(U1)
                  /\ SubSeq(canon.once, 1, Len(U1) + 1) = U1 \o <<"?">>
            /\ (Len(others) = Len(before) /\ canon.url[Len(canon.url)] \notin {"?", "&"}) =>
                  canon.once = canon.url

\* ===================================================== registry build tool
\* tools/osobny_spravodaj_build_config.py.  A cell of the workbook is None (an
\* empty cell), a text [str |-> tokens], a number [int |-> n] or a truth value
\* [bool |-> b].  The tokens of a text are characters, or one of the words the
\* tool looks for inside a text ("http://", ".xml", "api", ...), which no other
\* token of the alphabet can spell.  A row of a sheet is a function from the
\* column names of the sheet to cells.

REQUIRED_COLUMNS ==
    << "source_id", "source_name", "source_owner", "source_type", "url_home", "url_feed",
       "fetch_method", "fetch_frequency_min", "geo_default", "geo_scope_hint", "brief_level",
       "daily_brief_inclusion", "notify_policy", "notify_class_default", "impact_bias",
       "score_boost", "dedupe_priority", "source_threshold_override",
       "require_term_for_inclusion", "allow_push_time_start", "allow_push_time_end",
       "cooldown_minutes", "topic_default_tags", "parser_notes", "quality_notes", "enabled" >>

REQUIRED_NONEMPTY_IF_ENABLED ==
    << "source_id", "source_name", "source_type", "url_home", "fetch_method",
       "fetch_frequency_min", "geo_default", "brief_level", "daily_brief_inclusion",
       "notify_policy", "enabled" >>

MACHINE_EXTS == {".xml", ".json", ".zip", ".csv", ".cap", ".atom", ".rss"}

\* The dataclass Issue.
Issue(level, source_id, field, message) ==
    [level |-> level, source_id |-> source_id, field |-> field, message |-> message]

\* The decimal digits of a natural number, and str() of an integer.
RECURSIVE NatText(_)
NatText(n) ==
    LET d == <<"0", "1", "2", "3", "4", "5", "6", "7", "8", "9">>[(n % 10) + 1]
    IN  IF n < 10 THEN <<d>> ELSE Append(NatText(n \div 10), d)

IntText(n) == IF n < 0 THEN <<"-">> \o NatText(0 - n) ELSE NatText(n)

\* str(x) of a cell that is not None.
StrOf(v) ==
    IF IsJStr(v) THEN v.str
    ELSE IF IsJInt(v) THEN IntText(v.int)
    ELSE IF v.bool THEN <<"True">> ELSE <<"False">>

\* _clean_cell(x): an empty cell is None, a text is stripped and None when
\* nothing is left, any other value is kept.
_clean_cell(x) ==
    IF x = None THEN None
    ELSE IF IsJStr(x) THEN (IF Strip(x.str) # <<>> THEN JStr(Strip(x.str)) ELSE None)
    ELSE x

\* row.get(c)
Cell(row, c) == IF c \in DOMAIN row THEN row[c] ELSE None

\* load_sources(xlsx) on the rows of the sheet "sources": every cell cleaned,
\* the columns enabled and require_term_for_inclusion made truth values.
load_sources(rows) ==
    [i \in 1..Len(rows) |->
        [c \in DOMAIN rows[i] |->
            IF c \in {"enabled", "require_term_for_inclusion"}
            THEN JBool(Truthy(_clean_cell(rows[i][c])))
            ELSE _clean_cell(rows[i][c])]]

\* df.columns: the columns of the sheet (those of its rows; a sheet without
\* rows still has its header).
ColumnsOf(sheet) == sheet.columns

\* validate_schema(df)
validate_schema(columns) ==
    IF \E i \in 1..Len(REQUIRED_COLUMNS) : REQUIRED_COLUMNS[i] \notin columns
    THEN <<Issue("ERROR", <<>>, "schema", "Missing required columns")>>
    ELSE <<>>

\* The digits of 2^1024 - 2^970: float() gives infinity for a text that spells
\* this number or a greater one, and int() raises OverflowError on it.
FloatInfinityFrom ==
    <<
       "1", "7", "9", "7", "6", "9", "3", "1", "3", "4", "8", "6",
       "2", "3", "1", "5", "8", "0", "7", "9", "3", "7", "2", "8",
       "9", "7", "1", "4", "0", "5", "3", "0", "3", "4", "1", "5",
       "0", "7", "9", "9", "3", "4", "1", "3", "2", "7", "1", "0",
       "0", "3", "7", "8", "2", "6", "9", "3", "6", "1", "7", "3",
       "7", "7", "8", "9", "8", "0", "4", "4", "4", "9", "6", "8",
       "2", "9", "2", "7", "6", "4", "7", "5", "0", "9", "4", "6",
       "6", "4", "9", "0", "1", "7", "9", "7", "7", "5", "8", "7",
       "2", "0", "7", "0", "9", "6", "3", "3", "0", "2", "8", "6",
       "4", "1", "6", "6", "9", "2", "8", "8", "7", "9", "1", "0",
       "9", "4", "6", "5", "5", "5", "5", "4", "7", "8", "5", "1",
       "9", "4", "0", "4", "0", "2", "6", "3", "0", "6", "5", "7",
       "4", "8", "8", "6", "7", "1", "5", "0", "5", "8", "2", "0",
       "6", "8", "1", "9", "0", "8", "9", "0", "2", "0", "0", "0",
       "7", "0", "8", "3", "8", "3", "6", "7", "6", "2", "7", "3",
       "8", "5", "4", "8", "4", "5", "8", "1", "7", "7", "1", "1",
       "5", "3", "1", "7", "6", "4", "4", "7", "5", "7", "3", "0",
       "2", "7", "0", "0", "6", "9", "8", "5", "5", "5", "7", "1",
       "3", "6", "6", "9", "5", "9", "6", "2", "2", "8", "4", "2",
       "9", "1", "4", "8", "1", "9", "8", "6", "0", "8", "3", "4",
       "9", "3", "6", "4", "7", "5", "2", "9", "2", "7", "1", "9",
       "0", "7", "4", "1", "6", "8", "4", "4", "4", "3", "6", "5",
       "5", "1", "0", "7", "0", "4", "3", "4", "2", "7", "1", "1",
       "5", "5", "9", "6", "9", "9", "5", "0", "8", "0", "9", "3",
       "0", "4", "2", "8", "8", "0", "1", "7", "7", "9", "0", "4",
       "1", "7", "4", "4", "9", "7", "7", "9", "2" >>

\* Half of the decimal fraction 0.d1...dn, as the n + 1 digits behind the
\* point: long division by 2, where the remainder carried into a digit is that
\* of the digit before it.
HalfDigits(digits) ==
    <<>> \o [i \in 1..(Len(digits) + 1) |->
                LET r == IF i = 1 THEN 0 ELSE digits[i - 1] % 2
                IN  IF i > Len(digits) THEN 5 * r ELSE (10 * r + digits[i]) \div 2]

\* The fraction digits halved count times over.
RECURSIVE HalfTimes(_, _)
HalfTimes(digits, count) ==
    IF count = 0 THEN digits ELSE With(HalfTimes(digits, count - 1), HalfDigits)

\* The digits behind the point of 2^-16, 2^-32 and 2^-48.
PowHalf16 == HalfTimes(<<5>>, 15)

PowHalf32 == HalfTimes(PowHalf16, 16)

PowHalf48 == HalfTimes(PowHalf32, 16)

\* The j digits behind the point of 2^-j, j >= 1.
PowHalf(j) ==
    IF j >= 48 THEN HalfTimes(PowHalf48, j - 48)
    ELSE IF j >= 32 THEN HalfTimes(PowHalf32, j - 32)
    ELSE IF j >= 16 THEN HalfTimes(PowHalf16, j - 16)
    ELSE HalfTimes(<<5>>, j - 1)

\* The digits behind the point of 1 - 2^-j for j in 1..64: those of 2^-j taken
\* from 9, the last one from 10.
OneLessPowHalf ==
    <<>> \o [j \in 1..64 |->
                <<>> \o [i \in 1..j |-> IF i = j THEN 10 - PowHalf(j)[i] ELSE 9 - PowHalf(j)[i]]]

\* float() gives the double nearest to the number the text spells, the one
\* with the even significand at a tie.  For an integer part n < 2^31 and the
\* digits frac behind the point that is n + 1 instead of a double between n
\* and n + 1 exactly when the fraction is 1 - 2^-j or more: 2^-j is half the
\* step of the doubles just under n + 1, which is 2^(k - 52) for
\* 2^k < n + 1 < 2^(k + 1) and 2^(k - 53) for n + 1 = 2^k, and the
\* significand of n + 1 is even.  No such fraction starts with another digit
\* than 9, as j is 22 at least.
FloatRoundsUp(n, frac) ==
    /\ frac # <<>>
    /\ frac[1] = "9"
    /\ With(Cardinality({e \in 1..30 : 2^e <= n + 1}), LAMBDA k :
       With(OneLessPowHalf[IF n + 1 = 2^k THEN 54 - k ELSE 53 - k], LAMBDA least :
       With(IF Len(frac) > Len(least) THEN Len(frac) ELSE Len(least), LAMBDA width :
       With({i \in 1..width :
                (IF i <= Len(frac) THEN DigitValue(frac[i]) ELSE 0)
                # (IF i <= Len(least) THEN least[i] ELSE 0)}, LAMBDA differ :
           \/ differ = {}
           \/ \E i \in differ :
                 /\ \A h \in differ : i <= h
                 /\ i <= Len(frac)
                 /\ i > Len(least) \/ DigitValue(frac[i]) > least[i]))))

\* int(float(val)) of a cell that is not None: [ok, val]; not ok where the
\* code gets an exception.  float() reads a stripped text of an optional sign,
\* digits with an optional point (a digit on one side of it at least) and an
\* optional exponent (e or E, an optional sign, digits), single underscores
\* allowed between two digits, and rounds the number to the nearest double;
\* int() cuts the fraction of that double off and raises on the infinity
\* float() gives from 2^1024 - 2^970 on.  inf and nan, which float() reads
\* too, make int() raise like any other text does float().
IntOfFloat(v) ==
    IF IsJInt(v) THEN [ok |-> TRUE, val |-> v.int]
    ELSE IF IsJBool(v) THEN [ok |-> TRUE, val |-> IF v.bool THEN 1 ELSE 0]
    ELSE
    With(Strip(v.str), LAMBDA t :
    With(IF t # <<>> /\ t[1] \in {"-", "+"} THEN Tail(t) ELSE t, LAMBDA u :
    With(SelectSeq(u, LAMBDA c : c # "_"), LAMBDA w :
    With(IF \E i \in 1..Len(w) : w[i] \in {"e", "E"}
         THEN CHOOSE i \in 1..Len(w) :
                 w[i] \in {"e", "E"} /\ \A j \in 1..(i - 1) : w[j] \notin {"e", "E"}
         ELSE 0, LAMBDA epos :
    With(IF epos = 0 THEN w ELSE SubSeq(w, 1, epos - 1), LAMBDA mant :
    With(IF epos = 0 THEN <<>> ELSE SubSeq(w, epos + 1, Len(w)), LAMBDA ex :
    With(IF ex # <<>> /\ ex[1] \in {"-", "+"} THEN Tail(ex) ELSE ex, LAMBDA edigits :
    With(FirstIndex(mant, "."), LAMBDA dot :
    With(IF dot = 0 THEN mant ELSE SubSeq(mant, 1, dot - 1), LAMBDA whole :
    With(IF dot = 0 THEN <<>> ELSE SubSeq(mant, dot + 1, Len(mant)), LAMBDA frac :
    With(whole \o frac, LAMBDA all :
        IF ~ /\ \A i \in 1..Len(u) :
                   u[i] = "_" => /\ i > 1 /\ i < Len(u)
                                 /\ IsDigit(u[i - 1]) /\ IsDigit(u[i + 1])
             /\ \A i \in 1..Len(all) : IsDigit(all[i])
             /\ all # <<>>
             /\ epos # 0 => edigits # <<>> /\ \A i \in 1..Len(edigits) : IsDigit(edigits[i])
        THEN [ok |-> FALSE, val |-> 0]
        ELSE
        \* point: the digits of all in front of the decimal point; lead: its
        \* leading zeros; shifted: the digits of the integer part
        With(Len(whole) + (IF epos = 0 THEN 0
                           ELSE IF ex[1] = "-" THEN 0 - DigitsValue(edigits, 0)
                           ELSE DigitsValue(edigits, 0)), LAMBDA point :
        With(Cardinality({i \in 1..Len(all) : \A j \in 1..i : all[j] = "0"}), LAMBDA lead :
        With(IF point <= lead \/ lead = Len(all) THEN <<>>
             ELSE IF point <= Len(all) THEN SubSeq(all, lead + 1, point)
             ELSE SubSeq(all, lead + 1, Len(all)) \o [i \in 1..(point - Len(all)) |-> "0"],
             LAMBDA shifted :
            IF /\ lead < Len(all)
               /\ \/ point - lead > Len(FloatInfinityFrom)
                  \/ /\ point - lead = Len(FloatInfinityFrom)
                     /\ \/ shifted = FloatInfinityFrom
                        \/ \E i \in 1..Len(FloatInfinityFrom) :
                              /\ DigitValue(shifted[i]) > DigitValue(FloatInfinityFrom[i])
                              /\ \A j \in 1..(i - 1) : shifted[j] = FloatInfinityFrom[j]
            THEN [ok |-> FALSE, val |-> 0]
            ELSE
            \* behind: the digits behind the decimal point; n: the integer
            \* part of the number spelt; n + 1 where float() rounds up to it
            With(IF point < 0 THEN [i \in 1..(0 - point) |-> "0"] \o all
                 ELSE IF point >= Len(all) THEN <<>>
                 ELSE SubSeq(all, point + 1, Len(all)), LAMBDA behind :
            With(DigitsValue(shifted, 0), LAMBDA n :
            With(IF FloatRoundsUp(n, behind) THEN n + 1 ELSE n, LAMBDA cut :
                [ok |-> TRUE, val |-> IF t[1] = "-" THEN 0 - cut ELSE cut])))))))))))))))))

\* _opt_int(val)
_opt_int(val) ==
    IF val = None THEN None
    ELSE IF IsJBool(val) THEN JInt(IF val.bool THEN 1 ELSE 0)
    ELSE IF IsJStr(val) /\ Strip(val.str) = <<>> THEN None
    ELSE IF IntOfFloat(val).ok THEN JInt(IntOfFloat(val).val) ELSE None

\* _looks_like_landing_page(url)
_looks_like_landing_page(url) ==
    LET u == Lower(Strip(url))
        has(w) == \E i \in 1..Len(u) : u[i] = w
    IN  IF u = <<>> THEN FALSE
        ELSE IF u[Len(u)] \in MACHINE_EXTS THEN FALSE
        ELSE IF has("data.slovensko.sk/datasety") THEN TRUE
        ELSE IF u[Len(u)] = ".html" \/ has("/index") THEN TRUE
        ELSE IF ~has("api") /\ ~has("download") /\ ~has("export") THEN TRUE
        ELSE FALSE

\* TIME_RE.match(t): ^(?:[01]\d|2[0-3]):[0-5]\d$ on a stripped text.
TIME_RE(t) ==
    /\ Len(t) = 5
    /\ \/ t[1] \in {"0", "1"} /\ IsDigit(t[2])
       \/ t[1] = "2" /\ t[2] \in {"0", "1", "2", "3"}
    /\ t[3] = ":"
    /\ t[4] \in {"0", "1", "2", "3", "4", "5"}
    /\ IsDigit(t[5])

\* x or "": the value itself when it is true, else the empty text.
OrEmpty(v) == IF Truthy(v) THEN v ELSE JStr(<<>>)

\* x in {...} for a set of texts: only a text can be equal to one of them.
TextIn(v, texts) == IsJStr(v) /\ v.str \in texts

\* sid of validate_sources: the stripped text of the source_id cell, "" for None.
SidOf(row) ==
    IF Cell(row, "source_id") = None THEN <<>> ELSE Strip(StrOf(Cell(row, "source_id")))

\* ids of validate_sources: the stripped texts of the source_id cells that are not None.
RECURSIVE IdsOf(_, _)
IdsOf(df, i) ==
    IF i > Len(df) THEN <<>>
    ELSE IF Cell(df[i], "source_id") = None THEN IdsOf(df, i + 1)
    ELSE <<Strip(StrOf(Cell(df[i], "source_id")))>> \o IdsOf(df, i + 1)

\* dups of validate_sources: the ids that stand more than once in ids.
DupsOf(ids) == {ids[i] : i \in {j \in 1..Len(ids) : \E k \in 1..(j - 1) : ids[k] = ids[j]}}

\* sorted(dups)
RECURSIVE SortedTexts(_)
SortedTexts(texts) ==
    IF texts = {} THEN <<>>
    ELSE LET least == CHOOSE t \in texts :
                          \A o \in texts \ {t} : LexLess(Codes(t), Codes(o))
         IN  <<least>> \o SortedTexts(texts \ {least})

RECURSIVE DuplicateIssues(_, _)
DuplicateIssues(dups, i) ==
    IF i > Len(dups) THEN <<>>
    ELSE <<Issue("ERROR", dups[i], "source_id", "Duplicate source_id")>>
         \o DuplicateIssues(dups, i + 1)

\* The test that skips a fully empty row.
IsEmptyRow(row) ==
    /\ SidOf(row) = <<>>
    /\ ~Truthy(Cell(row, "enabled"))
    /\ \A i \in 1..Len(REQUIRED_COLUMNS) :
          REQUIRED_COLUMNS[i] # "enabled" => Cell(row, REQUIRED_COLUMNS[i]) = None

\* The loop over REQUIRED_NONEMPTY_IF_ENABLED of an enabled row.
RECURSIVE RequiredIssues(_, _)
RequiredIssues(row, i) ==
    IF i > Len(REQUIRED_NONEMPTY_IF_ENABLED) THEN <<>>
    ELSE LET c == REQUIRED_NONEMPTY_IF_ENABLED[i]
             v == Cell(row, c)
         IN  (IF v = None \/ (IsJStr(v) /\ Strip(v.str) = <<>>)
              THEN <<Issue("ERROR", SidOf(row), c, "Required field is empty (enabled source)")>>
              ELSE <<>>)
             \o RequiredIssues(row, i + 1)

ENUM_FIELDS ==
    << "source_type", "fetch_method", "geo_default", "brief_level", "daily_brief_inclusion",
       "notify_policy", "notify_class_default", "impact_bias" >>

\* The loop over the enum fields: enums.get(f) is None for a field the sheet
\* "enums" does not list, and nothing is checked then.
RECURSIVE EnumIssues(_, _, _)
EnumIssues(row, enums, i) ==
    IF i > Len(ENUM_FIELDS) THEN <<>>
    ELSE LET f == ENUM_FIELDS[i]
             v == Cell(row, f)
             allowed == IF f \in DOMAIN enums THEN enums[f] ELSE {}
         IN  (IF v # None /\ allowed # {} /\ Strip(StrOf(v)) \notin allowed
              THEN <<Issue("ERROR", SidOf(row), f, "Invalid value")>>
              ELSE <<>>)
             \o EnumIssues(row, enums, i + 1)

\* The issues _int_field(name, lo, hi, allow_none=True) appends.
IntFieldIssues(row, name, lo, hi) ==
    LET val == Cell(row, name)
    IN  IF val = None THEN <<>>
        ELSE IF ~IntOfFloat(val).ok
        THEN <<Issue("ERROR", SidOf(row), name, "Not an integer")>>
        ELSE IF IntOfFloat(val).val < lo \/ IntOfFloat(val).val > hi
        THEN <<Issue("ERROR", SidOf(row), name, "Out of range")>>
        ELSE <<>>

\* What _int_field(name, lo, hi, allow_none=True) returns: the integer even
\* when it is out of range, None for an empty cell and for no integer.
_int_field(row, name) ==
    LET val == Cell(row, name)
    IN  IF val = None THEN None
        ELSE IF ~IntOfFloat(val).ok THEN None
        ELSE JInt(IntOfFloat(val).val)

\* thr_ovr and cooldown: the integer when it is in range, else None.
RangedInt(row, name, lo, hi) ==
    LET val == Cell(row, name)
    IN  IF val # None /\ IntOfFloat(val).ok
           /\ IntOfFloat(val).val >= lo /\ IntOfFloat(val).val <= hi
        THEN JInt(IntOfFloat(val).val)
        ELSE None

\* The loop over the two time fields.
TimeIssues(row, tf) ==
    LET tv == Cell(row, tf)
    IN  IF tv # None /\ ~TIME_RE(Strip(StrOf(tv)))
        THEN <<Issue("ERROR", SidOf(row), tf, "Invalid time format")>>
        ELSE <<>>

\* The loop over the two URL fields.
UrlIssues(row, uf) ==
    LET uv == Cell(row, uf)
        uvs == Strip(StrOf(uv))
    IN  IF uv # None /\ ~(uvs # <<>> /\ uvs[1] \in {"http://", "https://"})
        THEN <<Issue("WARN", SidOf(row), uf, "URL does not start with http(s)")>>
        ELSE <<>>

\* parts of validate_sources: the stripped, non-empty pieces of the tag text.
TagParts(row) ==
    LET tags_raw == OrEmpty(Cell(row, "topic_default_tags"))
        pieces == SplitOn(StrOf(tags_raw), ",", <<>>)
        stripped == [i \in 1..Len(pieces) |-> Strip(pieces[i])]
    IN  IF ~Truthy(tags_raw) THEN <<>>
        ELSE SelectSeq(stripped, LAMBDA t : t # <<>>)

RECURSIVE TagIssues(_, _, _, _)
TagIssues(row, parts, enabled_tags, i) ==
    IF i > Len(parts) THEN <<>>
    ELSE (IF parts[i] \notin enabled_tags
          THEN <<Issue("WARN", SidOf(row), "topic_default_tags", "Unknown/disabled tag")>>
          ELSE <<>>)
         \o TagIssues(row, parts, enabled_tags, i + 1)

\* The issues one pass of the row loop of validate_sources appends.
RowIssues(row, enums, enabled_tags) ==
    LET sid == SidOf(row)
        enabled == Truthy(Cell(row, "enabled"))
        fetch_method == OrEmpty(Cell(row, "fetch_method"))
        url_feed == Cell(row, "url_feed")
        notify_policy == OrEmpty(Cell(row, "notify_policy"))
        notify_class == OrEmpty(Cell(row, "notify_class_default"))
        inclusion == OrEmpty(Cell(row, "daily_brief_inclusion"))
    IN  IF IsEmptyRow(row) THEN <<>>
        ELSE (IF enabled THEN RequiredIssues(row, 1) ELSE <<>>)
             \o EnumIssues(row, enums, 1)
             \o IntFieldIssues(row, "fetch_frequency_min", 5, 1440)
             \o IntFieldIssues(row, "score_boost", -3, 5)
             \o IntFieldIssues(row, "dedupe_priority", 1, 9)
             \o IntFieldIssues(row, "source_threshold_override", 0, 10)
             \o IntFieldIssues(row, "cooldown_minutes", 0, 720)
             \o TimeIssues(row, "allow_push_time_start")
             \o TimeIssues(row, "allow_push_time_end")
             \o UrlIssues(row, "url_home")
             \o UrlIssues(row, "url_feed")
             \o (IF TextIn(fetch_method, {<<"rss">>, <<"api">>, <<"dataset">>})
                    /\ ~Truthy(url_feed)
                 THEN <<Issue("ERROR", sid, "url_feed", "url_feed required for fetch_method")>>
                 ELSE <<>>)
             \o (IF fetch_method = JStr(<<"dataset">>) /\ Truthy(url_feed)
                    /\ _looks_like_landing_page(Strip(StrOf(url_feed)))
                 THEN <<Issue("WARN", sid, "url_feed",
                              "fetch_method=dataset: url_feed looks like a landing page")>>
                 ELSE <<>>)
             \o (IF notify_policy = JStr(<<"always">>)
                    /\ TextIn(notify_class, {<<"none">>, <<>>})
                 THEN <<Issue("ERROR", sid, "notify_class_default",
                              "notify_policy=always requires notify_class_default != none")>>
                 ELSE <<>>)
             \o (IF inclusion = JStr(<<"never">>) /\ notify_policy # JStr(<<"never">>)
                 THEN <<Issue("WARN", sid, "notify_policy",
                              "daily_brief_inclusion=never but notify_policy != never")>>
                 ELSE <<>>)
             \o TagIssues(row, TagParts(row), enabled_tags, 1)

\* norm of validate_sources: the row an enabled source is exported from.
NormRow(row) ==
    [c \in {REQUIRED_COLUMNS[i] : i \in 1..Len(REQUIRED_COLUMNS)} |->
        CASE c = "fetch_frequency_min" -> _int_field(row, c)
          [] c = "score_boost" -> _int_field(row, c)
          [] c = "dedupe_priority" -> _int_field(row, c)
          [] c = "cooldown_minutes" -> RangedInt(row, c, 0, 720)
          [] c = "source_threshold_override" -> RangedInt(row, c, 0, 10)
          [] c = "topic_default_tags" -> JList(TagParts(row))
          [] OTHER -> Cell(row, c)]

RECURSIVE RowLoopIssues(_, _, _, _)
RowLoopIssues(df, enums, enabled_tags, i) ==
    IF i > Len(df) THEN <<>>
    ELSE RowIssues(df[i], enums, enabled_tags) \o RowLoopIssues(df, enums, enabled_tags, i + 1)

RECURSIVE ValidRows(_, _)
ValidRows(df, i) ==
    IF i > Len(df) THEN <<>>
    ELSE (IF ~IsEmptyRow(df[i]) /\ Truthy(Cell(df[i], "enabled"))
          THEN <<NormRow(df[i])>> ELSE <<>>)
         \o ValidRows(df, i + 1)

\* validate_sources(df, enums, enabled_tags)
validate_sources(df, enums, enabled_tags) ==
    [issues |-> DuplicateIssues(SortedTexts(DupsOf(IdsOf(df, 1))), 1)
                \o RowLoopIssues(df, enums, enabled_tags, 1),
     valid_rows |-> ValidRows(df, 1)]

\* load_defaults(xlsx) on the rows (key, value) of the sheet "defaults": a row
\* without a key is skipped, a text of digits becomes a number, a later row
\* replaces an earlier one of the same key.  The dict is a function from keys.
RECURSIVE load_defaults(_, _, _)
load_defaults(rows, i, out) ==
    IF i > Len(rows) THEN out
    ELSE LET k == _clean_cell(rows[i].key)
             v == _clean_cell(rows[i].value)
             val == IF v # None /\ IsJStr(v) /\ \A j \in 1..Len(v.str) : IsDigit(v.str[j])
                    THEN JInt(DigitsValue(v.str, 0)) ELSE v
         IN  IF k = None THEN load_defaults(rows, i + 1, out)
             ELSE load_defaults(rows, i + 1,
                                [x \in DOMAIN out \cup {k} |-> IF x = k THEN val ELSE out[x]])

\* get_int(key, fallback) of build_export.
get_int(defaults, key, fallback) ==
    LET k == JStr(<<key>>)
    IN  IF k \notin DOMAIN defaults THEN fallback
        ELSE IF defaults[k] # None /\ IntOfFloat(defaults[k]).ok
        THEN IntOfFloat(defaults[k]).val
        ELSE fallback

\* defaults.get(key, fallback)
get_default(defaults, key, fallback) ==
    IF JStr(<<key>>) \in DOMAIN defaults THEN defaults[JStr(<<key>>)] ELSE JStr(fallback)

\* export["defaults"] of build_export.
ExportDefaults(defaults) ==
    [thresholds |->
        [BA |-> get_int(defaults, "threshold_BA", 5),
         BSK |-> get_int(defaults, "threshold_BSK", 5),
         SR |-> get_int(defaults, "threshold_SR", 4),
         SUSEDIA |-> get_int(defaults, "threshold_SUSEDIA", 6),
         EU_GLOBAL |-> get_int(defaults, "threshold_EU_GLOBAL", 6)],
     daily_limits |->
        [BA |-> get_int(defaults, "daily_limit_BA", 10),
         BSK |-> get_int(defaults, "daily_limit_BSK", 8),
         SR |-> get_int(defaults, "daily_limit_SR", 8),
         SUSEDIA |-> get_int(defaults, "daily_limit_SUSEDIA", 5),
         EU_GLOBAL |-> get_int(defaults, "daily_limit_EU_GLOBAL", 5)],
     push_windows |->
        [practical |->
            << get_default(defaults, "push_window_practical_start", <<"0", "7", ":", "0", "0">>),
               get_default(defaults, "push_window_practical_end", <<"2", "1", ":", "0", "0">>) >>,
         decision |->
            << get_default(defaults, "push_window_decision_start", <<"0", "8", ":", "0", "0">>),
               get_default(defaults, "push_window_decision_end", <<"2", "0", ":", "0", "0">>) >>],
     cooldowns_default |->
        [urgent |-> get_int(defaults, "cooldown_urgent_default", 30),
         practical |-> get_int(defaults, "cooldown_practical_default", 120),
         decision |-> get_int(defaults, "cooldown_decision_default", 360)]]

\* The base letter NFKD and the removal of combining marks leave of a character.
Unaccent(c) == IF c = "e_acute" THEN "e" ELSE c

\* [a-z0-9] of slugify_tag.
IsSlugChar(c) == IsLowerAlnum(c) \/ c = "e"

\* re.sub(r"[^a-z0-9]+", "_", s): every maximal run outside [a-z0-9] becomes one "_".
RECURSIVE SlugRuns(_, _)
SlugRuns(s, inRun) ==
    IF s = <<>> THEN <<>>
    ELSE IF IsSlugChar(s[1]) THEN <<s[1]>> \o SlugRuns(Tail(s), FALSE)
    ELSE IF inRun THEN SlugRuns(Tail(s), TRUE)
    ELSE <<"_">> \o SlugRuns(Tail(s), TRUE)

\* str.strip("_")
StripUnderscores(s) ==
    LET keep == {i \in 1..Len(s) : s[i] # "_"}
    IN  IF keep = {} THEN <<>>
        ELSE SubSeq(s, CHOOSE i \in keep : \A j \in keep : i <= j,
                       CHOOSE i \in keep : \A j \in keep : i >= j)

\* slugify_tag(s)
slugify_tag(s) ==
    LET low == Lower(Strip(s))
    IN  StripUnderscores(SlugRuns([i \in 1..Len(low) |-> Unaccent(low[i])], FALSE))

\* A sequence without the later copies of its elements.
RECURSIVE Deduped(_, _)
Deduped(seq, i) ==
    IF i > Len(seq) THEN <<>>
    ELSE (IF \E j \in 1..(i - 1) : seq[j] = seq[i] THEN <<>> ELSE <<seq[i]>>)
         \o Deduped(seq, i + 1)

\* maybe_norm_tags(tags)
maybe_norm_tags(tags, normalize_tags) ==
    IF ~normalize_tags THEN tags
    ELSE LET slugs == [i \in 1..Len(tags) |-> slugify_tag(tags[i])]
         IN  Deduped(SelectSeq(slugs, LAMBDA t : t # <<>>), 1)

\* The (tid, t) pairs tag_display.setdefault is called with, in order, over
\* the rows from position i.
RECURSIVE TagDisplayCalls(_, _)
TagDisplayCalls(rows, i) ==
    IF i > Len(rows) THEN <<>>
    ELSE LET tags == rows[i]["topic_default_tags"].list
             pairs == [j \in 1..Len(tags) |-> <<slugify_tag(tags[j]), tags[j]>>]
         IN  SelectSeq(pairs, LAMBDA pr : pr[1] # <<>>) \o TagDisplayCalls(rows, i + 1)

\* tag_display after the loop: for every tid the first t it was set to, in
\* the order of insertion.
RECURSIVE TagDisplay(_, _)
TagDisplay(pairs, i) ==
    IF i > Len(pairs) THEN <<>>
    ELSE (IF \E j \in 1..(i - 1) : pairs[j][1] = pairs[i][1] THEN <<>> ELSE <<pairs[i]>>)
         \o TagDisplay(pairs, i + 1)

\* src_obj of build_export for one row.  A key of a dict that was popped, or
\* of a dict that has no such key, is Missing.
SrcObj(r, exportDefaults, normalize_tags) ==
    LET allow_start == r["allow_push_time_start"]
        allow_end == r["allow_push_time_end"]
        notify_class == IF Truthy(r["notify_class_default"])
                        THEN r["notify_class_default"] ELSE JStr(<<"none">>)
        allow_time ==
            IF Truthy(allow_start) /\ Truthy(allow_end) THEN JList(<<allow_start, allow_end>>)
            ELSE IF notify_class = JStr(<<"practical">>)
            THEN JList(exportDefaults.push_windows.practical)
            ELSE IF notify_class = JStr(<<"decision">>)
            THEN JList(exportDefaults.push_windows.decision)
            ELSE None
        cooldown ==
            IF r["cooldown_minutes"] # None THEN r["cooldown_minutes"]
            ELSE IF notify_class = JStr(<<"urgent">>)
            THEN JInt(exportDefaults.cooldowns_default.urgent)
            ELSE IF notify_class = JStr(<<"practical">>)
            THEN JInt(exportDefaults.cooldowns_default.practical)
            ELSE IF notify_class = JStr(<<"decision">>)
            THEN JInt(exportDefaults.cooldowns_default.decision)
            ELSE None
    IN  [source_id |-> r["source_id"],
         name |-> r["source_name"],
         owner |-> r["source_owner"],
         type |-> r["source_type"],
         urls |-> [home |-> r["url_home"],
                   feed |-> IF Truthy(r["url_feed"]) THEN r["url_feed"] ELSE Missing],
         fetch |-> [method |-> r["fetch_method"],
                    frequency_min |-> _opt_int(r["fetch_frequency_min"])],
         geo |-> [default |-> r["geo_default"], scope_hint |-> r["geo_scope_hint"]],
         brief |-> [level |-> r["brief_level"],
                    inclusion |-> r["daily_brief_inclusion"],
                    require_term |-> Truthy(r["require_term_for_inclusion"]),
                    threshold_override |-> _opt_int(r["source_threshold_override"])],
         notify |-> [policy |-> r["notify_policy"],
                     class_default |-> notify_class,
                     allow_time |-> allow_time,
                     cooldown_min |-> _opt_int(cooldown)],
         scoring |-> [boost |-> _opt_int(r["score_boost"]),
                      impact_bias |-> r["impact_bias"]],
         dedupe |-> [priority |-> _opt_int(r["dedupe_priority"])],
         tags_default |-> maybe_norm_tags(r["topic_default_tags"].list, normalize_tags),
         notes |-> [parser |-> r["parser_notes"], quality |-> r["quality_notes"]],
         enabled |-> TRUE]

\* build_export(defaults, rows, normalize_tags)
build_export(defaults, rows, normalize_tags) ==
    LET tag_display == TagDisplay(TagDisplayCalls(rows, 1), 1)
    IN  [defaults |-> ExportDefaults(defaults),
         sources |-> [i \in 1..Len(rows) |->
                         SrcObj(rows[i], ExportDefaults(defaults), normalize_tags)],
         tag_display |-> IF normalize_tags /\ tag_display # <<>>
                         THEN tag_display ELSE Missing]

\* The text write_report writes to validation_report.txt: its lines.
write_report(issues) ==
    IF issues = <<>> THEN <<[line |-> "OK: No validation issues."], [line |-> ""]>>
    ELSE <<[line |-> "Issues", n |-> Len(issues)], [line |-> ""]>>
         \o issues
         \o << [line |-> ""],
               [line |-> "ERRORS",
                n |-> Len(SelectSeq(issues, LAMBDA it : it.level = "ERROR"))],
               [line |-> "WARNINGS",
                n |-> Len(SelectSeq(issues, LAMBDA it : it.level = "WARN"))] >>

\* The schema documents of the runs: {} accepts every document, {"not": {}}
\* rejects every document, "min_sources" is
\* {"properties": {"sources": {"minItems": 1}}}, and "feed_required" asks for
\* the key "feed" in the urls of every source.  "not_json" is a file json.loads
\* rejects.
SchemaDocs == {"any", "none", "min_sources", "feed_required", "not_json"}

\* sorted(v.iter_errors(export_obj), ...): the paths of the errors.
SchemaErrors(export_obj, doc) ==
    CASE doc = "any" -> <<>>
      [] doc = "none" -> <<"/">>
      [] doc = "min_sources" -> IF export_obj.sources = <<>> THEN <<"/sources">> ELSE <<>>
      [] doc = "feed_required" ->
            SelectSeq([i \in 1..Len(export_obj.sources) |->
                          IF export_obj.sources[i].urls.feed = Missing
                          THEN "/sources/i/urls" ELSE ""],
                      LAMBDA e : e # "")

\* schema_validate(export_obj, schema_path, outdir): whether it raised, the ok
\* it returns, and the text it writes to schema_report.txt (Missing when it
\* writes none).  schema is the file --schema names: whether it exists, and
\* the document in it.
schema_validate(export_obj, schema, has_jsonschema) ==
    IF ~has_jsonschema
    THEN [raised |-> FALSE, ok |-> FALSE, report |-> [lines |-> <<"ERROR: jsonschema is not installed">>]]
    ELSE IF ~schema.exists
    THEN [raised |-> FALSE, ok |-> FALSE, report |-> [lines |-> <<"ERROR: Schema file not found">>]]
    ELSE IF schema.doc = "not_json"
    THEN [raised |-> TRUE, ok |-> FALSE, report |-> Missing]
    ELSE IF SchemaErrors(export_obj, schema.doc) = <<>>
    THEN [raised |-> FALSE, ok |-> TRUE, report |-> [lines |-> <<"OK: registry matches schema.">>]]
    ELSE [raised |-> FALSE, ok |-> FALSE,
          report |-> [lines |-> <<"ERRORS:">> \o SchemaErrors(export_obj, schema.doc)]]

\* ------------------------------------------- main of the registry build tool
\* build.step is the place main stands at: "start" (before line 534), "load"
\* (538), "sheets" (545), "validate" (549), "export" (559), "yaml" (570), "json"
\* (581), "done" (main returned) or "crashed" (an exception left main).
\* build.written lists the files main has written, in order; build.exit_code
\* is the exit status of the process, -1 while main runs.

\* pd.read_excel(xlsx, sheet_name=...) raises for a sheet the workbook lacks.
HasSheet(workbook, name) == name \in workbook.sheets

\* main returns code after writing the files and printing the error lines given.
BuildReturn(code, files_written, err) ==
    [build EXCEPT !.step = "done", !.exit_code = code, !.written = files_written, !.stderr = err]

\* An exception leaves main: the interpreter prints the traceback and exits with 1.
BuildRaise == [build EXCEPT !.step = "crashed", !.exit_code = 1]

\* Lines 534-536: the input file is looked for.
BuildCheckInput ==
    /\ build.step = "start"
    /\ build' = IF ~build.input_exists
                THEN BuildReturn(2, build.written,
                                 Append(build.stderr, "ERROR: input file not found"))
                ELSE [build EXCEPT !.step = "load"]
    /\ UNCHANGED <<runVars, canon, scoring, agg, digest, pick, guess, strat>>

\* Lines 538-543: load_sources and validate_schema.
BuildLoadSources ==
    /\ build.step = "load"
    /\ build' =
          IF ~HasSheet(build.workbook, "sources") THEN BuildRaise
          ELSE LET schema_issues == validate_schema(build.workbook.columns)
               IN  IF schema_issues # <<>>
                      /\ \E i \in 1..Len(schema_issues) : schema_issues[i].level = "ERROR"
                   THEN BuildReturn(2,
                            Append(build.written,
                                   [name |-> "validation_report.txt",
                                    content |-> write_report(schema_issues)]),
                            Append(build.stderr, "Validation failed (Excel schema)"))
                   ELSE [build EXCEPT !.step = "sheets",
                                      !.df = load_sources(build.workbook.rows),
                                      !.issues = schema_issues]
    /\ UNCHANGED <<runVars, canon, scoring, agg, digest, pick, guess, strat>>

\* Lines 545-547: load_enums, load_defaults, load_enabled_tags.
BuildLoadSheets ==
    /\ build.step = "sheets"
    /\ build' =
          IF \E name \in {"enums", "defaults", "tag_dictionary"} : ~HasSheet(build.workbook, name)
          THEN BuildRaise
          ELSE [build EXCEPT !.step = "validate",
                             !.defaults = load_defaults(build.workbook.defaults, 1, <<>>)]
    /\ UNCHANGED <<runVars, canon, scoring, agg, digest, pick, guess, strat>>

\* Lines 549-557: validate_sources, write_report, the test for errors.
BuildValidate ==
    /\ build.step = "validate"
    /\ \E checked \in {validate_sources(build.df, build.workbook.enums,
                                         build.workbook.enabled_tags)} :
          LET issues == build.issues \o checked.issues
              written == Append(build.written,
                                [name |-> "validation_report.txt",
                                 content |-> write_report(issues)])
          IN  build' =
                IF \E i \in 1..Len(issues) : issues[i].level = "ERROR"
                THEN [BuildReturn(2, written, Append(build.stderr, "Validation failed"))
                         EXCEPT !.issues = issues]
                ELSE [build EXCEPT !.step = "export", !.issues = issues,
                                   !.enabled_rows = checked.valid_rows, !.written = written]
    /\ UNCHANGED <<runVars, canon, scoring, agg, digest, pick, guess, strat>>

\* Lines 559-568: build_export and the optional schema validation.
BuildExport ==
    /\ build.step = "export"
    /\ \E export_obj \in {build_export(build.defaults, build.enabled_rows,
                                          build.normalize_tags)} :
          IF build.schema = None
          THEN build' = [build EXCEPT !.step = "yaml", !.export_obj = export_obj]
          ELSE \E checked \in {schema_validate(export_obj, build.schema,
                                                build.has_jsonschema)} :
                  LET written == IF checked.report = Missing THEN build.written
                                 ELSE Append(build.written,
                                             [name |-> "schema_report.txt",
                                              content |-> checked.report])
                  IN  build' =
                        IF checked.raised THEN [BuildRaise EXCEPT !.export_obj = export_obj]
                        ELSE IF ~checked.ok
                        THEN [BuildReturn(2, written,
                                          Append(build.stderr, "Schema validation failed"))
                                 EXCEPT !.export_obj = export_obj]
                        ELSE [build EXCEPT !.step = "yaml", !.export_obj = export_obj,
                                           !.written = written,
                                           !.stdout = Append(build.stdout, "Schema OK")]
    /\ UNCHANGED <<runVars, canon, scoring, agg, digest, pick, guess, strat>>

\* Lines 570-579: the YAML export.
BuildWriteYaml ==
    /\ build.step = "yaml"
    /\ build' =
          IF build.format \notin {"yaml", "both"} THEN [build EXCEPT !.step = "json"]
          ELSE IF ~build.has_yaml
          THEN [build EXCEPT !.step = "json",
                             !.stderr = Append(build.stderr, "WARN: PyYAML not installed")]
          ELSE [build EXCEPT !.step = "json",
                             !.written = Append(build.written,
                                                [name |-> "registry.yaml",
                                                 content |-> build.export_obj]),
                             !.stdout = Append(build.stdout, "Wrote registry.yaml")]
    /\ UNCHANGED <<runVars, canon, scoring, agg, digest, pick, guess, strat>>

\* Lines 581-587: the JSON export and the return.
BuildWriteJson ==
    /\ build.step = "json"
    /\ build' =
          IF build.format \notin {"json", "both"}
          THEN [build EXCEPT !.step = "done", !.exit_code = 0,
                             !.stdout = Append(build.stdout, "Excel validation report")]
          ELSE [build EXCEPT !.step = "done", !.exit_code = 0,
                             !.written = Append(build.written,
                                                [name |-> "registry.json",
                                                 content |-> build.export_obj]),
                             !.stdout = build.stdout
                                        \o <<"Wrote registry.json", "Excel validation report">>]
    /\ UNCHANGED <<runVars, canon, scoring, agg, digest, pick, guess, strat>>

NextBuild ==
    \/ BuildCheckInput
    \/ BuildLoadSources
    \/ BuildLoadSheets
    \/ BuildValidate
    \/ BuildExport
    \/ BuildWriteYaml
    \/ BuildWriteJson

\* ---------------------------------------------------- runs of the build tool
MaxRows == 2        \* most rows of the sheet "sources"

\* An enabled rss source nothing is wrong with: "2.0" is a number as text, the
\* tags are "a, B!".
BaseRow ==
    [source_id |-> JStr(<<"A", "1">>), source_name |-> JStr(<<" ", "a">>),
     source_owner |-> None, source_type |-> JStr(<<"media">>),
     url_home |-> JStr(<<"https://", "a">>), url_feed |-> JStr(<<"https://", "a", ".xml">>),
     fetch_method |-> JStr(<<"rss">>), fetch_frequency_min |-> JInt(60),
     geo_default |-> JStr(<<"BA">>), geo_scope_hint |-> None, brief_level |-> JStr(<<"L1">>),
     daily_brief_inclusion |-> JStr(<<"auto">>), notify_policy |-> JStr(<<"never">>),
     notify_class_default |-> JStr(<<"practical">>), impact_bias |-> JStr(<<"anything">>),
     score_boost |-> JStr(<<"2", ".", "0">>), dedupe_priority |-> JInt(5),
     source_threshold_override |-> None, require_term_for_inclusion |-> None,
     allow_push_time_start |-> JStr(<<"0", "7", ":", "0", "0">>),
     allow_push_time_end |-> None, cooldown_minutes |-> None,
     topic_default_tags |-> JStr(<<"a", ",", " ", "B", "!">>),
     parser_notes |-> None, quality_notes |-> JStr(<<" ">>), enabled |-> JBool(TRUE)]

\* Warnings only: a home URL without scheme, a tag the dictionary does not
\* enable, never in the brief but notified.  The frequency is the text "1e3",
\* which float() reads as 1000.
RowWarn ==
    [BaseRow EXCEPT !.source_id = JStr(<<"B", "1">>), !.url_home = JStr(<<"a">>),
                    !.fetch_frequency_min = JStr(<<"1", "e", "3">>),
                    !.topic_default_tags = JStr(<<"a", ",", "b">>),
                    !.daily_brief_inclusion = JStr(<<"never">>),
                    !.notify_policy = JStr(<<"digest">>)]

\* A warning only: a dataset source whose feed looks like a landing page; no
\* feed key is exported for no other row, no tags.
RowDataset ==
    [BaseRow EXCEPT !.source_id = JInt(7), !.fetch_method = JStr(<<"dataset">>),
                    !.url_feed = JStr(<<"https://", "a", "/index">>),
                    !.topic_default_tags = None, !.enabled = JInt(1)]

\* Errors: rss without a feed, and a boost of "5." with sixteen 9s, which
\* float() rounds to 6.0, out of range.
RowNoFeed ==
    [BaseRow EXCEPT !.source_id = JStr(<<"B">>), !.url_feed = None,
                    !.score_boost = JStr(<<"5", ".">> \o [i \in 1..16 |-> "9"])]

\* An enabled html_list source without a feed: no issue, and no feed key in the
\* export.  The threshold is the text "1_0", which float() reads as 10.
RowHtml ==
    [BaseRow EXCEPT !.source_id = JStr(<<"a">>), !.fetch_method = JStr(<<"html_list">>),
                    !.source_threshold_override = JStr(<<"1", "_", "0">>),
                    !.url_feed = JStr(<<" ">>), !.topic_default_tags = JStr(<<"A", ",", "a">>)]

\* Errors in a row that is not enabled: a type the enums do not allow, a boost
\* out of range, a cooldown that is no number, a time that is none.
RowDisabledBad ==
    [BaseRow EXCEPT !.enabled = None, !.source_type = JStr(<<"other">>),
                    !.score_boost = JInt(9), !.cooldown_minutes = JStr(<<"a">>),
                    !.allow_push_time_end = JStr(<<"2", "4", ":", "0", "0">>)]

\* A fully empty row.
RowEmpty == [c \in DOMAIN BaseRow |-> None]

SheetRows == {BaseRow, RowWarn, RowDataset, RowNoFeed, RowHtml, RowDisabledBad, RowEmpty}

\* The sheet "enums" as load_enums reads it (impact_bias is not listed).
TheEnums ==
    [source_type |-> {<<"media">>, <<"office">>},
     fetch_method |-> {<<"rss">>, <<"api">>, <<"dataset">>, <<"html_list">>},
     geo_default |-> {<<"BA">>, <<"SR">>},
     brief_level |-> {<<"L1">>, <<"L2">>},
     daily_brief_inclusion |-> {<<"auto">>, <<"never">>},
     notify_policy |-> {<<"never">>, <<"digest">>, <<"always">>},
     notify_class_default |-> {<<"none">>, <<"practical">>, <<"decision">>, <<"urgent">>}]

\* The enabled tags of the sheet "tag_dictionary" as load_enabled_tags reads it.
TheEnabledTags == {<<"a">>, <<"B", "!">>, <<"A">>}

\* The rows of the sheet "defaults": a number as text, a text that is none, a
\* row without a key.
TheDefaults ==
    << [key |-> JStr(<<"threshold_BA">>), value |-> JStr(<<"7">>)],
       [key |-> JStr(<<"cooldown_practical_default">>), value |-> JStr(<<"a">>)],
       [key |-> None, value |-> JInt(1)],
       [key |-> JStr(<<"push_window_decision_end">>), value |-> None] >>

AllSheets == {"sources", "enums", "defaults", "tag_dictionary"}

Workbook(sheets, columns, rows) ==
    [sheets |-> sheets, columns |-> columns, rows |-> rows,
     enums |-> TheEnums, enabled_tags |-> TheEnabledTags, defaults |-> TheDefaults]

\* Whole workbooks over the rows above; a workbook whose sheet "sources" lacks
\* the column "enabled"; workbooks that lack a sheet.
Workbooks ==
    {Workbook(AllSheets, DOMAIN BaseRow, rows) : rows \in SeqsUpTo(SheetRows, MaxRows)}
    \cup {Workbook(AllSheets, DOMAIN BaseRow \ {"enabled"},
                   <<[c \in DOMAIN BaseRow \ {"enabled"} |-> BaseRow[c]]>>)}
    \cup {Workbook(AllSheets \ {name}, DOMAIN BaseRow, <<BaseRow>>) : name \in AllSheets}

\* --schema: not given, or the file it names.
SchemaArgs ==
    {None, [exists |-> FALSE, doc |-> "any"]}
    \cup {[exists |-> TRUE, doc |-> d] : d \in SchemaDocs}

\* A run before main starts: the command line, the packages installed, the
\* input file.
InitBuild ==
    /\ RunIdle
    /\ canon = [step |-> "idle"] /\ scoring = [step |-> "idle"] /\ agg = [step |-> "idle"]
    /\ digest = [step |-> "idle"] /\ pick = [step |-> "idle"] /\ guess = [step |-> "idle"]
    /\ strat = [step |-> "idle"]
    /\ \E exists \in BOOLEAN, workbook \in Workbooks, format \in {"yaml", "json", "both"},
          normalize_tags \in BOOLEAN, schema \in SchemaArgs,
          has_yaml \in BOOLEAN, has_jsonschema \in BOOLEAN :
          /\ ~exists => workbook = Workbook(AllSheets, DOMAIN BaseRow, <<>>)
          /\ build = [step |-> "start", input_exists |-> exists, workbook |-> workbook,
                      format |-> format, normalize_tags |-> normalize_tags, schema |-> schema,
                      has_yaml |-> has_yaml, has_jsonschema |-> has_jsonschema,
                      df |-> <<>>, defaults |-> <<>>, issues |-> <<>>, enabled_rows |-> <<>>,
                      export_obj |-> None, written |-> <<>>, stderr |-> <<>>, stdout |-> <<>>,
                      exit_code |-> -1]

SpecBuild == InitBuild /\ [][NextBuild]_vars

\* The run has written a file of that name.
BuildWrote(name) == \E i \in 1..Len(build.written) : build.written[i].name = name

\* The run is over: main returned, or an exception ended the process.
BuildEnded == build.step \in {"done", "crashed"}

ExportFiles == {"registry.json", "registry.yaml"}

\* What validation makes of the inputs of the run, whatever main does with it:
\* the issues of the workbook, the document exported from it, the verdict of
\* the schema.
ExcelIssues ==
    validate_schema(build.workbook.columns)
    \o validate_sources(load_sources(build.workbook.rows), build.workbook.enums,
                        build.workbook.enabled_tags).issues

ExcelReadable == build.input_exists /\ build.workbook.sheets = AllSheets

NoErrorIssue == \A i \in 1..Len(ExcelIssues) : ExcelIssues[i].level # "ERROR"

SchemaPasses ==
    \/ build.schema = None
    \/ schema_validate(
           build_export(load_defaults(build.workbook.defaults, 1, <<>>),
                        validate_sources(load_sources(build.workbook.rows), build.workbook.enums,
                                         build.workbook.enabled_tags).valid_rows,
                        build.normalize_tags),
           build.schema, build.has_jsonschema).ok

\* An export file is written only after validation_report.txt, for a workbook
\* without ERROR issues, and, when --schema is given, after a schema report of
\* a schema validation that passed.
C21_ExportAfterValidation ==
    build.step # "idle" =>
        \A i \in 1..Len(build.written) :
            build.written[i].name \in ExportFiles =>
                /\ ExcelReadable /\ NoErrorIssue /\ SchemaPasses
                /\ \E j \in 1..(i - 1) : build.written[j].name = "validation_report.txt"
                /\ build.schema # None =>
                      \E j \in 1..(i - 1) :
                          /\ build.written[j].name = "schema_report.txt"
                          /\ build.written[j].content.lines = <<"OK: registry matches schema.">>

\* A run that ends with exit code 2 has written no export file.
C21_NoExportOnExit2 ==
    build.step # "idle" =>
        (build.exit_code = 2 => \A name \in ExportFiles : ~BuildWrote(name))

\* Warnings alone: a run whose workbook has issues, none of them an ERROR, and
\* whose schema validation, if any, passes, ends with exit code 0 and has
\* written the exports asked for (registry.yaml where PyYAML is installed).
C21_WarningsDoNotBlock ==
    (BuildEnded /\ ExcelReadable /\ ExcelIssues # <<>> /\ NoErrorIssue /\ SchemaPasses) =>
        /\ build.exit_code = 0
        /\ build.format \in {"json", "both"} => BuildWrote("registry.json")
        /\ (build.format \in {"yaml", "both"} /\ build.has_yaml) => BuildWrote("registry.yaml")

\* Every run that is over has written validation_report.txt.
C21_ReportInEveryRun == BuildEnded => BuildWrote("validation_report.txt")

\* C21: in the registry build tool an export file (registry.json,
\* registry.yaml) is written only after Excel validation has produced no
\* ERROR issue and, when a schema is given, schema validation has passed; a run
\* that ends with exit code 2 has written no export file; warnings alone never
\* prevent the export or change exit code 0; and validation_report.txt is
\* written in every run.
\* Violated: a run whose input file is not found returns 2 before any report
\* is written, and a run whose workbook lacks a sheet is ended by the exception
\* of read_excel before write_report is reached.
C21_ValidatedExport ==
    /\ C21_ExportAfterValidation
    /\ C21_NoExportOnExit2
    /\ C21_WarningsDoNotBlock
    /\ C21_ReportInEveryRun

====
